---- MODULE Spec2Model ----
(***************************************************************************)
(* A model of the LLRP client codec of sllurp (sllurp/llrp_proto.py).      *)
(*                                                                         *)
(* The codec is a set of pure functions over byte strings and structured   *)
(* values.  A byte string is a sequence over 0..255; a structured value    *)
(* (a Python dict) is a function from key strings to values.  The state    *)
(* of the model is one call of the codec: the registry entry used (entry), *)
(* the function it holds (fn), the argument (arg) and what the function    *)
(* returned or raised (out).                                               *)
(*                                                                         *)
(* Python values are modelled as follows.                                  *)
(*   - bool is a subclass of int, so flags are the integers 0 and 1;       *)
(*   - a decoder returns (par, rest), (None, rest) or raises: the records  *)
(*     Ok(par, rest), NoPar(rest) and Raise;                               *)
(*   - an encoder returns a byte string or raises: Raised is its marker;   *)
(*   - a decoded 32-bit or 64-bit field is kept as its bytes, and every    *)
(*     32-bit field given to an encoder stays below 2^31 (the checker's    *)
(*     integers are 32 bits).                                              *)
(***************************************************************************)
EXTENDS Integers, Sequences, FiniteSets, TLC

VARIABLES entry, fn, arg, out

vars == <<entry, fn, arg, out>>

(***************************************************************************)
(* Bounds of the inputs.                                                   *)
(***************************************************************************)
\* longest list of C1G2TargetTag given to encode_C1G2TagSpec
MaxTargets == 2
\* deepest nesting of ParameterError inside a ParameterError on the wire
MaxNest == 1
\* most TagReportData parameters in one RO_ACCESS_REPORT
MaxReports == 2

\* the longest run of one repeated child in a GeneralDeviceCapabilities
MaxEntries == 2

\* the most frequencies in a frequency table
MaxFrequencies == 2

(***************************************************************************)
(* struct.pack / struct.unpack, big endian, and Python slicing.            *)
(***************************************************************************)
Min(a, b) == IF a < b THEN a ELSE b

\* data[a:b] for 0 <= a, 0 <= b
Slice(s, a, b) ==
    LET e == Min(b, Len(s))
    IN  IF a >= e THEN <<>> ELSE SubSeq(s, a + 1, e)

\* data[a:]
From(s, a) == Slice(s, a, Len(s))

U8(v) == <<v>>

U16(v) == <<(v \div 256) % 256, v % 256>>

U32(v) == <<(v \div 16777216) % 256, (v \div 65536) % 256,
            (v \div 256) % 256, v % 256>>

\* struct.pack('!b', v), v in -128..127
S8(v) == <<v % 256>>

\* struct.unpack('!H', s[i:i+2])[0], 0-based i
U16At(s, i) == s[i + 1] * 256 + s[i + 2]

\* the marker of an exception raised by an encoder
Raised == <<-1>>

\* a + b + ... on byte strings, an exception in any operand propagating
RECURSIVE Cat(_)
Cat(parts) ==
    IF Len(parts) = 0 THEN <<>>
    ELSE LET rest == Cat(Tail(parts))
         IN  IF Head(parts) = Raised \/ rest = Raised THEN Raised
             ELSE Head(parts) \o rest

\* results of a decoder
Ok(par, rest) == [st |-> "ok", par |-> par, rest |-> rest]

NoPar(rest) == [st |-> "none", par |-> <<>>, rest |-> rest]

Raise == [st |-> "raise", par |-> <<>>, rest |-> <<>>]

\* the call never returns: a loop whose iteration is a function of the
\* buffer alone has left the buffer as it was
Diverge == [st |-> "diverge", par |-> <<>>, rest |-> <<>>]

\* "if ret:" on the first component of a decoder's result
Truthy(r) == r.st = "ok" /\ DOMAIN r.par # {}

\* dict(a, **b): the keys of b added to a
Upd(a, b) == [k \in DOMAIN a \cup DOMAIN b |-> IF k \in DOMAIN b THEN b[k] ELSE a[k]]

\* the dict {prefix + str(first): vals[1], prefix + str(first + 1): vals[2], ...}
Numbered(prefix, first, vals) ==
    [k \in { prefix \o ToString(first + i - 1) : i \in 1..Len(vals) } |->
        vals[CHOOSE i \in 1..Len(vals) : prefix \o ToString(first + i - 1) = k]]

\* A decoder's locals "par" (or "msg") and "body" are carried as Ok(par, body),
\* and as Raise once an exception has been raised.
\* "ret, body = decode(body)" followed by "if ret: par[key] = ret", where r
\* is the result of the decoder on acc.rest
Child(acc, key, r) ==
    IF acc.st = "raise" THEN Raise
    ELSE IF r.st = "raise" THEN Raise
    ELSE Ok(IF Truthy(r) THEN Upd(acc.par, key :> r.par) ELSE acc.par, r.rest)

\* "par[key], body = decode(body)"
Assign(acc, key, r) ==
    IF acc.st = "raise" THEN Raise
    ELSE IF r.st = "raise" THEN Raise
    ELSE Ok(Upd(acc.par, key :> r.par), r.rest)

\* "if ret: msg[key] = ret" with "else: raise LLRPError(...)"
Required(acc, key, r) ==
    IF acc.st = "raise" THEN Raise
    ELSE IF r.st = "raise" THEN Raise
    ELSE IF Truthy(r) THEN Ok(Upd(acc.par, key :> r.par), r.rest)
    ELSE Raise

\* "if len(body) > 0: raise LLRPError('junk at end of message')"
EndOfMessage(acc) ==
    IF acc.st = "raise" THEN Raise
    ELSE IF Len(acc.rest) > 0 THEN Raise
    ELSE acc

\* "return par, rest"
Returning(acc, rest) == IF acc.st # "ok" THEN acc ELSE Ok(acc.par, rest)

(***************************************************************************)
(* The registries' type codes and the module's enumerations.               *)
(***************************************************************************)
par_header_len == 4

tve_header_len == 1

TLV_struct_type ==
    [ UTCTimestamp |-> 128, Uptime |-> 129,
      ROSpec |-> 177, ROBoundarySpec |-> 178, ROSpecStartTrigger |-> 179,
      ROSpecStopTrigger |-> 182, AISpec |-> 183, AISpecStopTrigger |-> 184,
      InventoryParameterSpec |-> 186, AccessSpec |-> 207,
      AccessSpecStopTrigger |-> 208, AccessCommand |-> 209,
      GeneralDeviceCapabilities |-> 137, ReceiveSensitivityTableEntry |-> 139,
      FrequencyInformation |-> 146, FrequencyHopTable |-> 147,
      FixedFrequencyTable |-> 148,
      PerAntennaAirProtocol |-> 140, GPIOCapabilities |-> 141,
      PerAntennaReceiveSensitivityRange |-> 149,
      MaximumReceiveSensitivity |-> 363,
      LLRPConfigurationStateValue |-> 217, Identification |-> 218,
      GPOWriteData |-> 219, KeepaliveSpec |-> 220, AntennaProperties |-> 221,
      AntennaConfiguration |-> 222, RFReceiver |-> 223, RFTransmitter |-> 224,
      GPIPortCurrentState |-> 225, EventsAndReports |-> 226,
      ROReportSpec |-> 237, TagReportContentSelector |-> 238,
      AccessReportSpec |-> 239, TagReportData |-> 240, EPCData |-> 241,
      ReaderEventNotificationSpec |-> 244, EventNotificationState |-> 245,
      ReaderEventNotificationData |-> 246, AntennaEvent |-> 255,
      ConnectionAttemptEvent |-> 256, ConnectionCloseEvent |-> 257,
      LLRPStatus |-> 287, FieldError |-> 288, ParameterError |-> 289,
      C1G2InventoryCommand |-> 330, C1G2Filter |-> 331, C1G2RFControl |-> 335,
      C1G2SingulationControl |-> 336, C1G2TagSpec |-> 338,
      C1G2TargetTag |-> 339, C1G2Read |-> 341, C1G2Write |-> 342,
      C1G2Lock |-> 344, C1G2LockPayload |-> 345, C1G2BlockWrite |-> 347,
      C1G2ReadOpSpecResult |-> 349, C1G2WriteOpSpecResult |-> 350,
      C1G2KillOpSpecResult |-> 351, C1G2LockOpSpecResult |-> 352,
      C1G2BlockEraseOpSpecResult |-> 353, C1G2BlockWriteOpSpecResult |-> 354,
      C1G2RecommissionOpSpecResult |-> 360,
      C1G2BlockPermalockOpSpecResult |-> 361,
      C1G2GetBlockPermalockStatusOpSpecResult |-> 362,
      LLRPCapabilities |-> 142, RegulatoryCapabilities |-> 143,
      UHFBandCapabilities |-> 144, TransmitPowerLevelTableEntry |-> 145,
      UHFRFModeTable |-> 328, UHFC1G2RFModeTableEntry |-> 329,
      RFSurveyFrequencyCapabilities |-> 365 ]

TV_struct_type == [ ROSpecID |-> 9, EPC96 |-> 13 ]

\* the type codes of the messages, which TLV_struct holds with the parameters
Message_type ==
    [ GET_READER_CAPABILITIES |-> 1, GET_READER_CAPABILITIES_RESPONSE |-> 11,
      ADD_ROSPEC |-> 20, ADD_ROSPEC_RESPONSE |-> 30,
      DELETE_ROSPEC |-> 21, DELETE_ROSPEC_RESPONSE |-> 31,
      START_ROSPEC |-> 22, START_ROSPEC_RESPONSE |-> 32,
      STOP_ROSPEC |-> 23, STOP_ROSPEC_RESPONSE |-> 33,
      ENABLE_ROSPEC |-> 24, ENABLE_ROSPEC_RESPONSE |-> 34,
      DISABLE_ROSPEC |-> 25, DISABLE_ROSPEC_RESPONSE |-> 35,
      RO_ACCESS_REPORT |-> 61, KEEPALIVE |-> 62, KEEPALIVE_ACK |-> 72,
      READER_EVENT_NOTIFICATION |-> 63,
      CLOSE_CONNECTION |-> 14, CLOSE_CONNECTION_RESPONSE |-> 4,
      ErrorMessage |-> 100, ENABLE_EVENTS_AND_REPORTS |-> 64,
      GET_READER_CONFIG |-> 2, GET_READER_CONFIG_RESPONSE |-> 12,
      SET_READER_CONFIG |-> 3, SET_READER_CONFIG_RESPONSE |-> 13,
      ADD_ACCESSSPEC |-> 40, ADD_ACCESSSPEC_RESPONSE |-> 50,
      DELETE_ACCESSSPEC |-> 41, DELETE_ACCESSSPEC_RESPONSE |-> 51,
      ENABLE_ACCESSSPEC |-> 42, ENABLE_ACCESSSPEC_RESPONSE |-> 52,
      DISABLE_ACCESSSPEC |-> 43, DISABLE_ACCESSSPEC_RESPONSE |-> 53 ]

\* the names TLV_struct holds
TLV_struct_names == DOMAIN TLV_struct_type \cup DOMAIN Message_type

\* the type code TLV_struct holds under name
TLVTypeOf(name) ==
    IF name \in DOMAIN Message_type THEN Message_type[name]
    ELSE TLV_struct_type[name]

ROSpecState_Name2Type == [ Disabled |-> 0, Inactive |-> 1, Active |-> 2 ]

StartTrigger_Name2Type == [ Null |-> 0, Immediate |-> 1, Periodic |-> 2, GPI |-> 3 ]

StopTrigger_Name2Type ==
    ("Null" :> 0) @@ ("Duration" :> 1) @@ ("GPI with timeout" :> 2)
        @@ ("Tag observation" :> 3)

ROReportTrigger_Name2Type ==
    ("None" :> 0) @@ ("Upon_N_Tags_Or_End_Of_AISpec" :> 1)
        @@ ("Upon_N_Tags_Or_End_Of_ROSpec" :> 2)

\* A dict key that is a str, and one that is an int: d[1] on a dict keyed by
\* names raises KeyError.
Name(s) == [kind |-> "str", str |-> s, int |-> 0]

Num(i) == [kind |-> "int", str |-> "", int |-> i]

(***************************************************************************)
(* Parameter encoders.  A call TLV_encode('X')(v) is written as the        *)
(* function the registry holds for X.                                      *)
(***************************************************************************)
\* struct.pack(msg_header, msgtype, len(data) + msg_header_len, fields...)
\* + data: msg_header_len is the size the encoder computes for its header
\* format, fields are the fields it packs after the length
Pack(msgtype, msg_header_len, fields, data) ==
    IF data = Raised THEN Raised
    ELSE U16(msgtype) \o U16(Len(data) + msg_header_len) \o fields \o data

\* 16.2.4.1.1.1 ROSpecStartTrigger
encode_ROSpecStartTrigger(par) ==
    IF par.ROSpecStartTriggerType \notin DOMAIN StartTrigger_Name2Type THEN Raised
    ELSE Pack(TLV_struct_type.ROSpecStartTrigger, 5,
              U8(StartTrigger_Name2Type[par.ROSpecStartTriggerType]), <<>>)

\* 16.2.4.1.1.2 ROSpecStopTrigger
encode_ROSpecStopTrigger(par) ==
    IF par.ROSpecStopTriggerType \notin DOMAIN StopTrigger_Name2Type THEN Raised
    ELSE Pack(TLV_struct_type.ROSpecStopTrigger, 9,
              U8(StopTrigger_Name2Type[par.ROSpecStopTriggerType])
                  \o U32(par.DurationTriggerValue),
              <<>>)

\* 16.2.4.1.1 ROBoundarySpec
encode_ROBoundarySpec(par) ==
    Pack(TLV_struct_type.ROBoundarySpec, 4, <<>>,
         Cat(<<encode_ROSpecStartTrigger(par.ROSpecStartTrigger),
               encode_ROSpecStopTrigger(par.ROSpecStopTrigger)>>))

\* 16.2.4.2.1 AISpecStopTrigger
encode_AISpecStopTrigger(par) ==
    IF par.AISpecStopTriggerType \notin DOMAIN StopTrigger_Name2Type THEN Raised
    ELSE Pack(TLV_struct_type.AISpecStopTrigger, 4, <<>>,
              U8(StopTrigger_Name2Type[par.AISpecStopTriggerType])
                  \o U32(par.DurationTriggerValue))

\* 16.2.6.7 RFReceiver
encode_RFReceiver(par) ==
    Pack(TLV_struct_type.RFReceiver, 4, <<>>, U16(par.ReceiverSensitivity))

\* 16.2.6.8 RFTransmitter
encode_RFTransmitter(par) ==
    Pack(TLV_struct_type.RFTransmitter, 4, <<>>,
         U16(par.HopTableId) \o U16(par.ChannelIndex) \o U16(par.TransmitPower))

\* 16.3.1.2.1.2 C1G2RFControl
encode_C1G2RFControl(par) ==
    Pack(TLV_struct_type.C1G2RFControl, 4, <<>>, U16(par.ModeIndex) \o U16(par.Tari))

\* 16.3.1.2.1.3 C1G2SingulationControl; struct.pack('!B', Session << 6)
\* raises when Session << 6 does not fit a byte
encode_C1G2SingulationControl(par) ==
    IF par.Session * 64 > 255 \/ par.Session < 0 THEN Raised
    ELSE Pack(TLV_struct_type.C1G2SingulationControl, 4, <<>>,
              U8(par.Session * 64) \o U16(par.TagPopulation)
                  \o U32(par.TagTransitTime))

\* 16.3.1.2.1 C1G2InventoryCommand; the registry's encoder of C1G2Filter is
\* "lambda: None", which raises TypeError when called with the value
encode_C1G2InventoryCommand(par) ==
    Pack(TLV_struct_type.C1G2InventoryCommand, 4, <<>>,
         Cat(<<U8((IF par.TagInventoryStateAware # 0 THEN 1 ELSE 0) * 128),
               IF "C1G2Filter" \in DOMAIN par THEN Raised ELSE <<>>,
               IF "C1G2RFControl" \in DOMAIN par
                   THEN encode_C1G2RFControl(par.C1G2RFControl) ELSE <<>>,
               IF "C1G2SingulationControl" \in DOMAIN par
                   THEN encode_C1G2SingulationControl(par.C1G2SingulationControl)
                   ELSE <<>> >>))

\* 16.2.6.6 AntennaConfiguration
encode_AntennaConfiguration(par) ==
    Pack(TLV_struct_type.AntennaConfiguration, 4, <<>>,
         Cat(<<U16(par.AntennaID),
               IF "RFReceiver" \in DOMAIN par
                   THEN encode_RFReceiver(par.RFReceiver) ELSE <<>>,
               IF "RFTransmitter" \in DOMAIN par
                   THEN encode_RFTransmitter(par.RFTransmitter) ELSE <<>>,
               IF "C1G2InventoryCommand" \in DOMAIN par
                   THEN encode_C1G2InventoryCommand(par.C1G2InventoryCommand)
                   ELSE <<>> >>))

\* 16.2.4.2.2 InventoryParameterSpec
encode_InventoryParameterSpec(par) ==
    Pack(TLV_struct_type.InventoryParameterSpec, 4, <<>>,
         Cat(<<U16(par.InventoryParameterSpecID), U8(par.ProtocolID)>>
             \o [i \in 1..Len(par.AntennaConfiguration) |->
                   encode_AntennaConfiguration(par.AntennaConfiguration[i])]))

\* int(a) of a decimal numeral, a sequence of digit characters
Digit == ("0" :> 0) @@ ("1" :> 1) @@ ("2" :> 2) @@ ("3" :> 3) @@ ("4" :> 4)
             @@ ("5" :> 5) @@ ("6" :> 6) @@ ("7" :> 7) @@ ("8" :> 8) @@ ("9" :> 9)

RECURSIVE int(_)
int(a) == IF Len(a) = 0 THEN 0
          ELSE int(SubSeq(a, 1, Len(a) - 1)) * 10 + Digit[a[Len(a)]]

\* str.split(): the maximal runs of characters other than the blank
RECURSIVE split(_)
split(str) ==
    IF Len(str) = 0 THEN <<>>
    ELSE IF Head(str) = " " THEN split(Tail(str))
    ELSE LET n == CHOOSE k \in 1..Len(str) :
                      /\ \A j \in 1..k : str[j] # " "
                      /\ (k = Len(str) \/ str[k + 1] = " ")
         IN  <<SubSeq(str, 1, n)>> \o split(SubSeq(str, n + 1, Len(str)))

\* the list "antennas" of encode_AISpec: the numerals of a str, as ints,
\* or the elements of a list
Antennas(antid) ==
    IF antid.kind = "str"
    THEN [i \in 1..Len(split(antid.str)) |-> int(split(antid.str)[i])]
    ELSE antid.list

\* encode_AISpec with the header length of a parameter without the
\* AntennaCount field
encode_AISpec_NoCount(par) ==
    Pack(TLV_struct_type.AISpec, 4, U16(Len(Antennas(par.AntennaIDs))),
         Cat([i \in 1..Len(Antennas(par.AntennaIDs)) |->
                U16(Antennas(par.AntennaIDs)[i])]
             \o <<encode_AISpecStopTrigger(par.AISpecStopTrigger),
                  encode_InventoryParameterSpec(par.InventoryParameterSpec)>>))

\* 16.2.4.2 AISpec: AntennaIDs is a str of numerals or a list of ints
encode_AISpec(par) ==
    Pack(TLV_struct_type.AISpec, 6, U16(Len(Antennas(par.AntennaIDs))),
         Cat([i \in 1..Len(Antennas(par.AntennaIDs)) |->
                U16(Antennas(par.AntennaIDs)[i])]
             \o <<encode_AISpecStopTrigger(par.AISpecStopTrigger),
                  encode_InventoryParameterSpec(par.InventoryParameterSpec)>>))

\* the field list of TLV_struct['TagReportContentSelector']
TagReportContentSelector_fields ==
    << "EnableROSpecID", "EnableSpecIndex", "EnableInventoryParameterSpecID",
       "EnableAntennaID", "EnableChannelIndex", "EnablePeakRRSI",
       "EnableFirstSeenTimestamp", "EnableLastSeenTimestamp",
       "EnableTagSeenCount", "EnableAccessSpecID" >>

\* 1 << i
RECURSIVE Shl1(_)
Shl1(i) == IF i = 0 THEN 1 ELSE 2 * Shl1(i - 1)

\* flags after the first k fields of the loop of encode_TagReportContentSelector
RECURSIVE SelectorFlags(_, _)
SelectorFlags(par, k) ==
    IF k = 0 THEN 0
    ELSE LET field == TagReportContentSelector_fields[k]
             i == 15 - (k - 1)
         IN  SelectorFlags(par, k - 1)
                 + (IF field \in DOMAIN par /\ par[field] # 0 THEN Shl1(i) ELSE 0)

\* 16.2.7.1 TagReportContentSelector
encode_TagReportContentSelector(par) ==
    Pack(TLV_struct_type.TagReportContentSelector, 4, <<>>,
         U16(SelectorFlags(par, Len(TagReportContentSelector_fields))))

\* 16.2.7.1 ROReportSpec
encode_ROReportSpec(par) ==
    IF ~(par.ROReportTrigger.kind = "str"
            /\ par.ROReportTrigger.str \in DOMAIN ROReportTrigger_Name2Type)
    THEN Raised
    ELSE Pack(TLV_struct_type.ROReportSpec, 7,
              U8(ROReportTrigger_Name2Type[par.ROReportTrigger.str]) \o U16(par.N),
              encode_TagReportContentSelector(par.TagReportContentSelector))

\* 16.2.4.1 ROSpec
encode_ROSpec(par) ==
    IF par.CurrentState \notin DOMAIN ROSpecState_Name2Type THEN Raised
    ELSE LET msgid == par.ROSpecID % 1024
             priority == par.Priority % 128
             state == ROSpecState_Name2Type[par.CurrentState] % 128
         IN  Pack(TLV_struct_type.ROSpec, 10,
                  U32(msgid) \o U8(priority) \o U8(state),
                  Cat(<<encode_ROBoundarySpec(par.ROBoundarySpec),
                        encode_AISpec(par.AISpec),
                        encode_ROReportSpec(par.ROReportSpec)>>))

\* encode_SET_READER_CONFIG without "else: raise Exception(...)"
encode_SET_READER_CONFIG_AnyCode(par) ==
    IF par.R < 0 \/ par.R > 255 THEN Raised
    ELSE U8(par.R) \o U16(par.Code) \o U16(5) \o U8((par.Payload * 128) % 256)

\* 17.1.42 SET_READER_CONFIG; struct.calcsize("!HHB") is 5, and
\* struct.pack("!B", R) raises when R does not fit a byte
encode_SET_READER_CONFIG(par) ==
    IF par.Code # 226 THEN Raised
    ELSE IF par.R < 0 \/ par.R > 255 THEN Raised
    ELSE U8(par.R) \o U16(par.Code) \o U16(5) \o U8((par.Payload * 128) % 256)

(***************************************************************************)
(* AccessSpec encoders.                                                    *)
(***************************************************************************)
encode_AccessSpecStopTrigger(par) ==
    Pack(TLV_struct_type.AccessSpecStopTrigger, 4, <<>>,
         U8(par.AccessSpecStopTriggerType) \o U16(par.OperationCountValue))

\* ['\x00'] * n
RECURSIVE Zeros(_)
Zeros(n) == IF n <= 0 THEN <<>> ELSE <<0>> \o Zeros(n - 1)

encode_bitstring(bstr, length_bytes) == bstr \o Zeros(length_bytes - Len(bstr))

encode_C1G2TargetTag(par) ==
    Pack(TLV_struct_type.C1G2TargetTag, 4, <<>>,
         U8(par.MB * 64 + (IF par.M # 0 THEN 32 ELSE 0))
             \o U16(par.Pointer)
             \o U16(par.MaskBitCount)
             \o (IF par.MaskBitCount # 0
                   THEN encode_bitstring(par.TagMask, ((par.MaskBitCount - 1) \div 8) + 1)
                   ELSE <<>>)
             \o U16(par.DataBitCount)
             \o (IF par.DataBitCount # 0
                   THEN encode_bitstring(par.TagData, ((par.DataBitCount - 1) \div 8) + 1)
                   ELSE <<>>))

\* the value of "data" after the loop "for target in targets: data = ..."
\* over the first k targets; unbound (an UnboundLocalError at its use)
\* when the loop body never ran
TagSpecLoop(targets, k) ==
    IF k = 0 THEN Raised ELSE encode_C1G2TargetTag(targets[k])

encode_C1G2TagSpec(par) ==
    Pack(TLV_struct_type.C1G2TagSpec, 4, <<>>,
         TagSpecLoop(par.C1G2TargetTag, Len(par.C1G2TargetTag)))

\* 16.2.1.3.2.2 C1G2Read
encode_C1G2Read(par) ==
    Pack(TLV_struct_type.C1G2Read, 4, <<>>,
         U16(par.OpSpecID) \o U32(par.AccessPassword) \o U8(par.MB * 64)
             \o U16(par.WordPtr) \o U16(par.WordCount))

\* 16.2.1.3.2.3 C1G2Write
encode_C1G2Write(par) ==
    Pack(TLV_struct_type.C1G2Write, 4, <<>>,
         U16(par.OpSpecID) \o U32(par.AccessPassword) \o U8(par.MB * 64)
             \o U16(par.WordPtr) \o U16(par.WriteDataWordCount) \o par.WriteData)

\* 16.2.1.3.2.5.1 C1G2LockPayload
encode_C1G2LockPayload(par) ==
    Pack(TLV_struct_type.C1G2LockPayload, 4, <<>>,
         U8(par.Privilege) \o S8(par.DataField))

\* 16.2.1.3.2.5 C1G2Lock
encode_C1G2Lock(par) ==
    Pack(TLV_struct_type.C1G2Lock, 4, <<>>,
         Cat(<<U16(par.OpSpecID), U32(par.AccessPassword)>>
             \o [i \in 1..Len(par.LockPayload) |->
                   encode_C1G2LockPayload(par.LockPayload[i])]))

\* 16.2.1.3.2.7 C1G2BlockWrite
encode_C1G2BlockWrite(par) ==
    Pack(TLV_struct_type.C1G2BlockWrite, 4, <<>>,
         U16(par.OpSpecID) \o U32(par.AccessPassword) \o U8(par.MB * 64)
             \o U16(par.WordPtr) \o U16(par.WriteDataWordCount) \o par.WriteData)

\* AccessCommandOp choosing C1G2BlockWrite for a write of one word too
AccessCommandOp_FromOneWord(op) ==
    IF "WriteData" \in DOMAIN op
    THEN IF op.WriteDataWordCount >= 1
         THEN encode_C1G2BlockWrite(op)
         ELSE encode_C1G2Write(op)
    ELSE IF "LockPayload" \in DOMAIN op
         THEN encode_C1G2Lock(op)
         ELSE encode_C1G2Read(op)

\* the operation encode_AccessCommand appends after the C1G2TagSpec
AccessCommandOp(op) ==
    IF "WriteData" \in DOMAIN op
    THEN IF op.WriteDataWordCount > 1
         THEN encode_C1G2BlockWrite(op)
         ELSE encode_C1G2Write(op)
    ELSE IF "LockPayload" \in DOMAIN op
         THEN encode_C1G2Lock(op)
         ELSE encode_C1G2Read(op)

encode_AccessCommand(par) ==
    Pack(TLV_struct_type.AccessCommand, 4, <<>>,
         Cat(<<encode_C1G2TagSpec(par.TagSpecParameter),
               AccessCommandOp(par.OpSpecParameter)>>))

encode_AccessReportSpec(par) ==
    Pack(TLV_struct_type.AccessReportSpec, 4, <<>>, U8(par.AccessReportTrigger))

\* 17.2.5.1 AccessSpec
encode_AccessSpec(par) ==
    Pack(TLV_struct_type.AccessSpec, 4, <<>>,
         Cat(<<U32(par.AccessSpecID), U16(par.AntennaID), U8(par.ProtocolID),
               U8(IF par.C # 0 THEN 128 ELSE 0), U32(par.ROSpecID),
               encode_AccessSpecStopTrigger(par.AccessSpecStopTrigger),
               encode_AccessCommand(par.AccessCommand),
               IF "AccessReportSpec" \in DOMAIN par
                   THEN encode_AccessReportSpec(par.AccessReportSpec)
                   ELSE <<>> >>))

(***************************************************************************)
(* Parameter decoders.                                                     *)
(***************************************************************************)
\* struct.unpack('!H', data[:2])[0]; raises struct.error on fewer than 2 bytes
getType(data) == U16At(data, 0)

getTypeRaises(data) == Len(data) < 2

\* msgtype & BITMASK(10) of the parameter header at the head of data
HdrType(data) == U16At(data, 0) % 1024

\* the length field of the parameter header at the head of data
HdrLength(data) == U16At(data, 2)

\* 16.2.2.1 UTCTimestamp
decode_UTCTimestamp(data) ==
    IF Len(data) = 0 THEN NoPar(data)
    ELSE IF Len(data) < par_header_len THEN Raise
    ELSE IF HdrType(data) # TLV_struct_type.UTCTimestamp THEN NoPar(data)
    ELSE LET length == HdrLength(data)
             body == Slice(data, par_header_len, length)
         IN  IF Len(body) # 8 THEN Raise
             ELSE Ok([Microseconds |-> body], From(data, length))

\* Uptime
decode_Uptime(data) ==
    IF Len(data) = 0 THEN NoPar(data)
    ELSE IF Len(data) < par_header_len THEN Raise
    ELSE IF HdrType(data) # TLV_struct_type.Uptime THEN NoPar(data)
    ELSE LET length == HdrLength(data)
             body == Slice(data, par_header_len, length)
         IN  IF Len(body) # 8 THEN Raise
             ELSE Ok([Microseconds |-> body], From(data, length))

\* 16.2.7.6.9 AntennaEvent
decode_AntennaEvent(data) ==
    IF Len(data) = 0 THEN NoPar(data)
    ELSE IF Len(data) < par_header_len THEN Raise
    ELSE IF HdrType(data) # TLV_struct_type.AntennaEvent THEN NoPar(data)
    ELSE LET length == HdrLength(data)
             body == Slice(data, par_header_len, length)
         IN  IF Len(body) # 3 THEN Raise
             ELSE Ok([EventType |-> IF body[1] # 0 THEN "Connected" ELSE "Disconnected",
                      AntennaID |-> U16At(body, 1)],
                     From(data, length))

ConnEvent_Type2Name ==
    (0 :> "Success")
    @@ (1 :> "Failed (a Reader initiated connection already exists)")
    @@ (2 :> "Failed (a Client initiated connection already exists)")
    @@ (3 :> "Failed (any reason other than a connection already exists)")
    @@ (4 :> "Another connection attempted")

\* 16.2.7.6.10 ConnectionAttemptEvent
decode_ConnectionAttemptEvent(data) ==
    IF Len(data) = 0 THEN NoPar(data)
    ELSE IF Len(data) < par_header_len THEN Raise
    ELSE IF HdrType(data) # TLV_struct_type.ConnectionAttemptEvent THEN NoPar(data)
    ELSE LET length == HdrLength(data)
             body == Slice(data, par_header_len, length)
         IN  IF Len(body) # 2 THEN Raise
             ELSE IF U16At(body, 0) \notin DOMAIN ConnEvent_Type2Name THEN Raise
             ELSE Ok([Status |-> ConnEvent_Type2Name[U16At(body, 0)]],
                     From(data, length))

\* 16.2.7.6.11 ConnectionCloseEvent: the value returned is the empty dict
decode_ConnectionCloseEvent(data) ==
    IF Len(data) = 0 THEN NoPar(data)
    ELSE IF Len(data) < par_header_len THEN Raise
    ELSE IF HdrType(data) # TLV_struct_type.ConnectionCloseEvent THEN NoPar(data)
    ELSE Ok(<<>>, From(data, HdrLength(data)))

\* the children of ReaderEventNotificationData after the timestamp
WithConnectionAttemptEvent(acc) ==
    Child(acc, "ConnectionAttemptEvent", decode_ConnectionAttemptEvent(acc.rest))

WithAntennaEvent(acc) == Child(acc, "AntennaEvent", decode_AntennaEvent(acc.rest))

WithConnectionCloseEvent(acc) ==
    Child(acc, "ConnectionCloseEvent", decode_ConnectionCloseEvent(acc.rest))

\* the Uptime branch without the raise of the missing timestamp
UptimeOrNone(up) ==
    IF up.st = "raise" THEN Raise
    ELSE IF Truthy(up) THEN Ok([Uptime |-> up.par], up.rest)
    ELSE Ok(<<>>, up.rest)

\* the "else:" branch of "if ret:" on the UTCTimestamp, up being the result
\* of TLV_decode('Uptime')(body)
UptimeOrRaise(up) ==
    IF up.st = "raise" THEN Raise
    ELSE IF Truthy(up) THEN Ok([Uptime |-> up.par], up.rest)
    ELSE Raise

\* the timestamp of ReaderEventNotificationData, utc being the result of
\* TLV_decode('UTCTimestamp')(body)
UTCTimestampOrUptime(utc) ==
    IF utc.st = "raise" THEN Raise
    ELSE IF Truthy(utc) THEN Ok([UTCTimestamp |-> utc.par], utc.rest)
    ELSE UptimeOrRaise(decode_Uptime(utc.rest))

\* 16.2.7.6 ReaderEventNotificationData
decode_ReaderEventNotificationData(data) ==
    IF Len(data) = 0 THEN NoPar(data)
    ELSE IF Len(data) < par_header_len THEN Raise
    ELSE WithConnectionCloseEvent(WithAntennaEvent(WithConnectionAttemptEvent(
             UTCTimestampOrUptime(decode_UTCTimestamp(
                 Slice(data, par_header_len, HdrLength(data)))))))

\* "if ret:" of decode_ReaderEventNotification with the check of the end of
\* the message inside it, r being the result of
\* TLV_decode('ReaderEventNotificationData')(data)
NotificationData(r) ==
    IF r.st = "raise" THEN Raise
    ELSE IF Truthy(r)
         THEN IF Len(r.rest) > 0 THEN Raise
              ELSE Ok([ReaderEventNotificationData |-> r.par], <<>>)
         ELSE Ok(<<>>, <<>>)

\* 16.1.33 READER_EVENT_NOTIFICATION: the check of the end of the message
\* is inside "if ret:" and reads the remainder the parameter decoder returns
decode_ReaderEventNotification(data) ==
    NotificationData(decode_ReaderEventNotificationData(data))

(***************************************************************************)
(* LLRPStatus and the response messages.                                   *)
(***************************************************************************)
Error_Name2Type ==
    [ Success |-> 0, ParameterError |-> 100, FieldError |-> 101,
      UnexpectedParameter |-> 102, MissingParameter |-> 103,
      DuplicateParameter |-> 104, OverflowParameter |-> 105,
      OverflowField |-> 106, UnknownParameter |-> 107, UnknownField |-> 108,
      UnsupportedMessage |-> 109, UnsupportedVersion |-> 110,
      UnsupportedParameter |-> 111, P_ParameterError |-> 200,
      P_FieldError |-> 201, P_UnexpectedParameter |-> 202,
      P_MissingParameter |-> 203, P_DuplicateParameter |-> 204,
      P_OverflowParameter |-> 205, P_OverflowField |-> 206,
      P_UnknownParameter |-> 207, P_UnknownField |-> 208,
      P_UnsupportedParameter |-> 209, A_Invalid |-> 300, A_OutOfRange |-> 301,
      DeviceError |-> 401 ]

\* reverse_dict(Error_Name2Type), as a set of <<code, name>>
Error_Type2Name == { <<Error_Name2Type[m], m>> : m \in DOMAIN Error_Name2Type }

\* 16.2.8.1.1 FieldError
decode_FieldError(data) ==
    IF Len(data) = 0 THEN NoPar(data)
    ELSE IF Len(data) < par_header_len THEN Raise
    ELSE IF HdrType(data) # TLV_struct_type.FieldError THEN NoPar(data)
    ELSE LET length == HdrLength(data)
             body == Slice(data, par_header_len, length)
         IN  IF Len(body) < 2 THEN Raise
             ELSE Ok([FieldNum |-> U16At(body, 0)], From(data, length))

WithFieldError(acc) == Child(acc, "FieldError", decode_FieldError(acc.rest))

RECURSIVE decode_ParameterError(_)

WithParameterError(acc) ==
    Child(acc, "ParameterError", decode_ParameterError(acc.rest))

\* 16.2.8.1.2 ParameterError
decode_ParameterError(data) ==
    IF Len(data) = 0 THEN NoPar(data)
    ELSE IF Len(data) < par_header_len THEN Raise
    ELSE IF HdrType(data) # TLV_struct_type.ParameterError THEN NoPar(data)
    ELSE LET length == HdrLength(data)
             body == Slice(data, par_header_len, length)
             offset == 4
         IN  IF Len(body) < offset THEN Raise
             ELSE Returning(
                      EndOfMessage(WithParameterError(WithFieldError(
                          Ok([ParameterType |-> U16At(body, 0),
                              ErrorCode |-> U16At(body, 2)],
                             From(body, offset))))),
                      From(data, length))

\* decode_LLRPStatus without "if len(body) > 0: raise LLRPError(...)"
decode_LLRPStatus_NoEndCheck(data) ==
    IF Len(data) = 0 THEN NoPar(data)
    ELSE IF Len(data) < par_header_len THEN Raise
    ELSE IF HdrType(data) # TLV_struct_type.LLRPStatus THEN NoPar(data)
    ELSE LET length == HdrLength(data)
             body == Slice(data, par_header_len, length)
             offset == 4
             code == U16At(body, 0)
             n == U16At(body, 2)
             known == { e \in Error_Type2Name : e[1] = code }
             par == IF known # {}
                      THEN [StatusCode |-> (CHOOSE e \in known : TRUE)[2],
                            ErrorDescription |-> Slice(body, offset, offset + n)]
                      ELSE [ErrorDescription |-> Slice(body, offset, offset + n)]
         IN  IF Len(body) < offset THEN Raise
             ELSE Returning(
                      WithParameterError(WithFieldError(
                          Ok(par, From(body, offset + n)))),
                      From(data, length))

\* 16.2.8.1 LLRPStatus
decode_LLRPStatus(data) ==
    IF Len(data) = 0 THEN NoPar(data)
    ELSE IF Len(data) < par_header_len THEN Raise
    ELSE IF HdrType(data) # TLV_struct_type.LLRPStatus THEN NoPar(data)
    ELSE LET length == HdrLength(data)
             body == Slice(data, par_header_len, length)
             offset == 4
             code == U16At(body, 0)
             n == U16At(body, 2)
             known == { e \in Error_Type2Name : e[1] = code }
             par == IF known # {}
                      THEN [StatusCode |-> (CHOOSE e \in known : TRUE)[2],
                            ErrorDescription |-> Slice(body, offset, offset + n)]
                      ELSE [ErrorDescription |-> Slice(body, offset, offset + n)]
         IN  IF Len(body) < offset THEN Raise
             ELSE Returning(
                      EndOfMessage(WithParameterError(WithFieldError(
                          Ok(par, From(body, offset + n))))),
                      From(data, length))

\* 16.1.4 ADD_ROSPEC_RESPONSE
decode_AddROSpecResponse(data) ==
    Returning(EndOfMessage(Required(Ok(<<>>, data), "LLRPStatus",
                                    decode_LLRPStatus(data))),
              <<>>)

\* 16.1.6 DELETE_ROSPEC_RESPONSE
decode_DeleteROSpecResponse(data) ==
    Returning(EndOfMessage(Required(Ok(<<>>, data), "LLRPStatus",
                                    decode_LLRPStatus(data))),
              <<>>)

\* 16.1.8 START_ROSPEC_RESPONSE
decode_StartROSpecResponse(data) ==
    Returning(EndOfMessage(Required(Ok(<<>>, data), "LLRPStatus",
                                    decode_LLRPStatus(data))),
              <<>>)

\* 16.1.10 STOP_ROSPEC_RESPONSE
decode_StopROSpecResponse(data) ==
    Returning(EndOfMessage(Required(Ok(<<>>, data), "LLRPStatus",
                                    decode_LLRPStatus(data))),
              <<>>)

\* 16.1.12 ENABLE_ROSPEC_RESPONSE
decode_EnableROSpecResponse(data) ==
    Returning(EndOfMessage(Required(Ok(<<>>, data), "LLRPStatus",
                                    decode_LLRPStatus(data))),
              <<>>)

\* 16.1.14 DISABLE_ROSPEC_RESPONSE
decode_DisableROSpecResponse(data) ==
    Returning(EndOfMessage(Required(Ok(<<>>, data), "LLRPStatus",
                                    decode_LLRPStatus(data))),
              <<>>)

\* 16.1.41 CLOSE_CONNECTION_RESPONSE
decode_CloseConnectionResponse(data) ==
    Returning(EndOfMessage(Required(Ok(<<>>, data), "LLRPStatus",
                                    decode_LLRPStatus(data))),
              <<>>)

\* 17.1.22 .. 17.1.28: the AccessSpec responses call the ROSpec ones
decode_AddAccessSpecResponse(msg) == decode_AddROSpecResponse(msg)

decode_DeleteAccessSpecResponse(msg) == decode_DeleteROSpecResponse(msg)

decode_EnableAccessSpecResponse(msg) == decode_EnableROSpecResponse(msg)

decode_DisableAccessSpecResponse(msg) == decode_DisableROSpecResponse(msg)

\* ERROR_MESSAGE
decode_ErrorMessage(data) ==
    Returning(Required(Ok(<<>>, data), "LLRPStatus", decode_LLRPStatus(data)), <<>>)

\* 17.1.43 SET_READER_CONFIG_RESPONSE
decode_SET_READER_CONFIG(data) ==
    Returning(Required(Ok(<<>>, data), "LLRPStatus", decode_LLRPStatus(data)), <<>>)

(***************************************************************************)
(* Tag reports.                                                            *)
(***************************************************************************)
HexDigits == <<"0", "1", "2", "3", "4", "5", "6", "7", "8", "9",
               "a", "b", "c", "d", "e", "f">>

\* bytes.encode('hex'): two hexadecimal digits per byte
RECURSIVE hex(_)
hex(bs) ==
    IF Len(bs) = 0 THEN <<>>
    ELSE <<HexDigits[(Head(bs) \div 16) + 1], HexDigits[(Head(bs) % 16) + 1]>>
             \o hex(Tail(bs))

\* 16.2.7.3.1 EPCData
decode_EPCData(data) ==
    IF Len(data) = 0 THEN NoPar(data)
    ELSE IF Len(data) < par_header_len THEN Raise
    ELSE IF HdrType(data) # TLV_struct_type.EPCData THEN NoPar(data)
    ELSE LET length == HdrLength(data)
             body == Slice(data, par_header_len, length)
         IN  IF Len(body) < 2 THEN Raise
             ELSE Ok([EPCLengthBits |-> U16At(body, 0), EPC |-> hex(From(body, 2))],
                     From(data, length))

\* 16.2.7.3.2 EPC-96
decode_EPC96(data) ==
    IF Len(data) = 0 THEN NoPar(data)
    ELSE IF data[1] % 128 # TV_struct_type.EPC96 THEN NoPar(data)
    ELSE LET length == tve_header_len + (96 \div 8)
             body == Slice(data, tve_header_len, length)
         IN  Ok([EPC |-> hex(body)], From(data, length))

\* 16.2.7.3.3 ROSpecID; "TLV_struct['ROSpecID']" raises KeyError when
\* TLV_struct holds no such name, and the 32-bit value is kept as its 4 bytes
decode_ROSpecID(data) ==
    IF Len(data) = 0 THEN NoPar(data)
    ELSE IF "ROSpecID" \notin TLV_struct_names THEN Raise
    ELSE IF data[1] % 128 # TLVTypeOf("ROSpecID") THEN NoPar(data)
    ELSE LET length == 1 + 4
             body == Slice(data, tve_header_len, length)
         IN  IF Len(body) # 4 THEN Raise
             ELSE Ok([ROSpecID |-> body], From(data, length))

\* llrp_decoder's table of the TV parameters: name and width in bytes
tve_param_formats ==
    (1 :> [name |-> "AntennaID", nbytes |-> 2])
    @@ (6 :> [name |-> "PeakRSSI", nbytes |-> 1])
    @@ (8 :> [name |-> "TagSeenCount", nbytes |-> 2])
    @@ (9 :> [name |-> "ROSpecID", nbytes |-> 4])

\* llrp_decoder.decode_tve_parameter: ({name: value}, bytes used), or
\* (None, 0) when the byte's high bit is clear or its type is unknown
decode_tve_parameter(data) ==
    LET msgtype == data[1] % 128
        fmt == tve_param_formats[msgtype]
        end == tve_header_len + fmt.nbytes
    IN  IF data[1] < 128 THEN NoPar(<<>>)
        ELSE IF msgtype \notin DOMAIN tve_param_formats THEN NoPar(<<>>)
        ELSE IF Len(data) < end THEN Raise
        ELSE [st |-> "ok",
              par |-> (fmt.name :> Slice(data, tve_header_len, end)),
              rest |-> From(data, end)]

\* "while body:" of decode_TagReportData: par and body after the loop
RECURSIVE TveLoop(_, _)
TveLoop(par, body) ==
    IF Len(body) = 0 THEN Ok(par, body)
    ELSE LET r == decode_tve_parameter(body)
         IN  IF r.st = "raise" THEN Raise
             ELSE IF Truthy(r) THEN TveLoop(Upd(par, r.par), r.rest)
             ELSE Ok(par, body)

WithTveParameters(acc) ==
    IF acc.st = "raise" THEN Raise ELSE TveLoop(acc.par, acc.rest)

OpSpecResultTypes ==
    { TLV_struct_type.C1G2ReadOpSpecResult, TLV_struct_type.C1G2WriteOpSpecResult,
      TLV_struct_type.C1G2KillOpSpecResult,
      TLV_struct_type.C1G2RecommissionOpSpecResult,
      TLV_struct_type.C1G2LockOpSpecResult,
      TLV_struct_type.C1G2BlockEraseOpSpecResult,
      TLV_struct_type.C1G2BlockWriteOpSpecResult,
      TLV_struct_type.C1G2BlockPermalockOpSpecResult,
      TLV_struct_type.C1G2GetBlockPermalockStatusOpSpecResult }

\* any of the C1G2*OpSpecResult parameters
decode_OpSpecResult(data) ==
    IF Len(data) = 0 THEN NoPar(data)
    ELSE IF Len(data) < par_header_len THEN Raise
    ELSE IF HdrType(data) \notin OpSpecResultTypes THEN NoPar(data)
    ELSE LET msgtype == HdrType(data)
             length == HdrLength(data)
             body0 == Slice(data, par_header_len, length)
             par0 == [Result |-> body0[1], OpSpecID |-> U16At(body0, 1)]
             body == From(body0, 3)
             wordcnt == U16At(body, 0)
             counted == Slice(body, 2, 2 + wordcnt * 2)
         IN  IF Len(body0) < 3 THEN Raise
             ELSE IF msgtype = TLV_struct_type.C1G2ReadOpSpecResult
             THEN IF Len(body) < 2 THEN Raise
                  ELSE Ok(Upd(par0, [ReadDataWordCount |-> wordcnt, ReadData |-> counted]),
                          From(data, length))
             ELSE IF msgtype \in { TLV_struct_type.C1G2WriteOpSpecResult,
                                   TLV_struct_type.C1G2BlockWriteOpSpecResult }
             THEN IF Len(body) < 2 THEN Raise
                  ELSE Ok(Upd(par0, [NumWordsWritten |-> wordcnt]), From(data, length))
             ELSE IF msgtype = TLV_struct_type.C1G2GetBlockPermalockStatusOpSpecResult
             THEN IF Len(body) < 2 THEN Raise
                  ELSE Ok(Upd(par0, [StatusWordCount |-> wordcnt,
                                     PermalockStatus |-> counted]),
                          From(data, length))
             ELSE Ok(par0, From(data, length))

WithOpSpecResult(acc) == Child(acc, "OpSpecResult", decode_OpSpecResult(acc.rest))

\* the "else:" branch of "if ret:" on the EPCData, e96 being the result of
\* TV_decode('EPC-96')(body)
EPC96OrRaise(e96) ==
    IF e96.st = "raise" THEN Raise
    ELSE IF Truthy(e96) THEN Ok(("EPC-96" :> e96.par.EPC), e96.rest)
    ELSE Raise

\* the EPC of TagReportData, epc being the result of
\* TLV_decode('EPCData')(body)
EPCDataOrEPC96(epc) ==
    IF epc.st = "raise" THEN Raise
    ELSE IF Truthy(epc) THEN Ok([EPCData |-> epc.par], epc.rest)
    ELSE EPC96OrRaise(decode_EPC96(epc.rest))

\* 16.2.7.3 TagReportData
decode_TagReportData(data) ==
    IF Len(data) = 0 THEN NoPar(data)
    ELSE IF Len(data) < par_header_len THEN Raise
    ELSE IF HdrType(data) # TLV_struct_type.TagReportData THEN NoPar(data)
    ELSE Returning(
             WithOpSpecResult(WithTveParameters(
                 EPCDataOrEPC96(decode_EPCData(
                     Slice(data, par_header_len, HdrLength(data)))))),
             From(data, HdrLength(data)))

\* the loop of decode_ROAccessReport with "break" after the first append
ROAccessReportLoop_Once(list, r) ==
    IF r.st = "raise" THEN Raise
    ELSE IF Truthy(r) THEN Ok([TagReportData |-> Append(list, r.par)], <<>>)
    ELSE Ok([TagReportData |-> list], <<>>)

\* 16.1.30 RO_ACCESS_REPORT: the list built by the "while True:" loop, r
\* being the result of TLV_decode('TagReportData')(data)
RECURSIVE ROAccessReportLoop(_, _)
ROAccessReportLoop(list, r) ==
    IF r.st = "raise" THEN Raise
    ELSE IF Truthy(r)
         THEN ROAccessReportLoop(Append(list, r.par), decode_TagReportData(r.rest))
         ELSE Ok([TagReportData |-> list], <<>>)

decode_ROAccessReport(data) == ROAccessReportLoop(<<>>, decode_TagReportData(data))

(***************************************************************************)
(* ROReportSpec and AntennaConfiguration decoders.                         *)
(***************************************************************************)
\* (EnableBits >> (i + 1)) & 1: the bit above the one asked for
Bit_Above(v, i) == (v \div Shl1(i + 1)) % 2

\* (EnableBits >> i) & 1
Bit(v, i) == (v \div Shl1(i)) % 2

\* 16.2.7.1 TagReportContentSelector
decode_TagReportContentSelector(data) ==
    IF Len(data) < 6 THEN Raise
    ELSE LET Length == U16At(data, 2)
             EnableBits == U16At(data, 4)
         IN  IF Length # 6 THEN Raise
             ELSE Ok([EnableROSpecID |-> Bit(EnableBits, 15),
                      EnableSpecIndex |-> Bit(EnableBits, 14),
                      EnableInventoryParameterSpecID |-> Bit(EnableBits, 13),
                      EnableAntennaID |-> Bit(EnableBits, 12),
                      EnableChannelIndex |-> Bit(EnableBits, 11),
                      EnablePeakRRSI |-> Bit(EnableBits, 10),
                      EnableFirstSeenTimestamp |-> Bit(EnableBits, 9),
                      EnableLastSeenTimestamp |-> Bit(EnableBits, 8),
                      EnableTagSeenCount |-> Bit(EnableBits, 7),
                      EnableAccessSpecID |-> Bit(EnableBits, 6)],
                     From(data, 6))

\* 16.2.7.1 ROReportSpec: ROReportTrigger is the number read from the wire
decode_ROReportSpec(data) ==
    IF Len(data) < 7 THEN Raise
    ELSE Assign(Ok([Type |-> U16At(data, 0), N |-> U16At(data, 5),
                    ROReportTrigger |-> Num(data[5])],
                   From(data, 7)),
                "TagReportContentSelector",
                decode_TagReportContentSelector(From(data, 7)))

decode_RFReceiver(data) ==
    IF Len(data) < 6 THEN Raise
    ELSE Ok([Type |-> U16At(data, 0), Length |-> U16At(data, 2),
             ReceiverSensitivity |-> U16At(data, 4)],
            From(data, 6))

decode_RFTransmitter(data) ==
    IF Len(data) < 10 THEN Raise
    ELSE Ok([Type |-> U16At(data, 0), Length |-> U16At(data, 2),
             HopTableId |-> U16At(data, 4), ChannelIndex |-> U16At(data, 6),
             TransmitPower |-> U16At(data, 8)],
            From(data, 10))

WithRFReceiver(acc) ==
    IF acc.st = "raise" THEN Raise
    ELSE IF getTypeRaises(acc.rest) THEN Raise
    ELSE IF getType(acc.rest) = TLV_struct_type.RFReceiver
         THEN Assign(acc, "RFReceiver", decode_RFReceiver(acc.rest))
         ELSE acc

WithRFTransmitter(acc) ==
    IF acc.st = "raise" THEN Raise
    ELSE IF getTypeRaises(acc.rest) THEN Raise
    ELSE IF getType(acc.rest) = TLV_struct_type.RFTransmitter
         THEN Assign(acc, "RFTransmitter", decode_RFTransmitter(acc.rest))
         ELSE acc

\* "if getType(body) == TLV_struct['C1G2InventoryCommand']['type']: raise"
NoC1G2InventoryCommand(acc) ==
    IF acc.st = "raise" THEN Raise
    ELSE IF getTypeRaises(acc.rest) THEN Raise
    ELSE IF getType(acc.rest) = TLV_struct_type.C1G2InventoryCommand THEN Raise
    ELSE acc

\* 16.2.6.6 AntennaConfiguration
decode_AntennaConfiguration(data) ==
    IF Len(data) < 6 THEN Raise
    ELSE IF U16At(data, 0) # TLV_struct_type.AntennaConfiguration THEN Ok(<<>>, data)
    ELSE Returning(
             NoC1G2InventoryCommand(WithRFTransmitter(WithRFReceiver(
                 Ok([Type |-> U16At(data, 0), Length |-> U16At(data, 2),
                     AntennaID |-> U16At(data, 4)],
                    From(data, 6))))),
             From(data, U16At(data, 2)))

(***************************************************************************)
(* The fixed-size parameters of GET_READER_CONFIG_RESPONSE.                *)
(***************************************************************************)
\* 17.2.6.1 LLRPConfigurationStateValue
decode_LLRPConfigurationStateValue(data) ==
    IF Len(data) < 8 THEN Raise
    ELSE Ok([Type |-> U16At(data, 0), Length |-> U16At(data, 2),
             LLRPConfigurationStateValue |-> Slice(data, 4, 8)],
            From(data, 8))

\* 17.2.6.3 GPOWriteData
decode_GPOWriteData(data) ==
    IF Len(data) < 7 THEN Raise
    ELSE Ok([Type |-> U16At(data, 0), Length |-> U16At(data, 2),
             GPOPortNumber |-> U16At(data, 4), GPOData |-> data[7] \div 128],
            From(data, 7))

\* 17.2.6.4 KeepaliveSpec
decode_KeepaliveSpec(data) ==
    IF Len(data) < 9 THEN Raise
    ELSE Ok([Type |-> U16At(data, 0), Length |-> U16At(data, 2),
             KeepaliveTriggerType |-> data[5], TimeInterval |-> Slice(data, 5, 9)],
            From(data, 9))

\* 17.2.6.5 AntennaProperties
decode_AntennaProperties(data) ==
    IF Len(data) < 9 THEN Raise
    ELSE Ok([Type |-> U16At(data, 0), Length |-> U16At(data, 2),
             Connected |-> data[5] \div 128, AntennaID |-> U16At(data, 5),
             AntennaGain |-> U16At(data, 7)],
            From(data, U16At(data, 2)))

\* 17.2.6.9 GPIPortCurrentState
decode_GPIPortCurrentState(data) ==
    IF Len(data) < 8 THEN Raise
    ELSE Ok([Type |-> U16At(data, 0), Length |-> U16At(data, 2),
             GPIPortNum |-> U16At(data, 4), GPIConfig |-> data[7] \div 128,
             GPIState |-> data[8]],
            From(data, 8))

\* 17.2.6.10 EventsAndReports
decode_EventsAndReports(data) ==
    IF Len(data) < 5 THEN Raise
    ELSE Ok([Type |-> U16At(data, 0), Length |-> U16At(data, 2),
             HoldEventsAndReportsUponReconnect |-> data[5] \div 128],
            From(data, 5))

\* 17.2.7.5.1 EventNotificationState
decode_EventNotificationState(data) ==
    IF Len(data) < 7 THEN Raise
    ELSE IF U16At(data, 0) # TLV_struct_type.EventNotificationState THEN Ok(<<>>, data)
    ELSE Ok([Type |-> U16At(data, 0), Length |-> U16At(data, 2),
             EventType |-> U16At(data, 4), NotificationState |-> data[7] \div 128],
            From(data, 7))

decode_AccessReportSpec(data) ==
    IF Len(data) < 5 THEN Raise
    ELSE Ok([Type |-> U16At(data, 0), Length |-> U16At(data, 2),
             AccessReportTrigger |-> data[5]],
            From(data, 5))

(***************************************************************************)
(* GeneralDeviceCapabilities and its children.                             *)
(***************************************************************************)
\* MaximumReceiveSensitivity: "(par[...]) = struct.unpack('!H', body)" binds
\* the tuple of one number
decode_MaximumReceiveSensitivity(data) ==
    IF Len(data) = 0 THEN NoPar(data)
    ELSE IF Len(data) < par_header_len THEN Raise
    ELSE IF HdrType(data) # TLV_struct_type.MaximumReceiveSensitivity THEN NoPar(data)
    ELSE LET length == HdrLength(data)
             body == Slice(data, par_header_len, length)
         IN  IF Len(body) # 2 THEN Raise
             ELSE Ok([MaximumSensitivityValue |-> <<U16At(body, 0)>>],
                     From(data, length))

decode_ReceiveSensitivityTableEntry(data) ==
    IF Len(data) = 0 THEN NoPar(data)
    ELSE IF Len(data) < par_header_len THEN Raise
    ELSE IF HdrType(data) # TLV_struct_type.ReceiveSensitivityTableEntry THEN NoPar(data)
    ELSE LET length == HdrLength(data)
             body == Slice(data, par_header_len, length)
         IN  IF Len(body) # 4 THEN Raise
             ELSE Ok([Index |-> U16At(body, 0),
                      ReceiveSensitivityValue |-> U16At(body, 2)],
                     From(data, length))

decode_PerAntennaReceiveSensitivityRange(data) ==
    IF Len(data) = 0 THEN NoPar(data)
    ELSE IF Len(data) < par_header_len THEN Raise
    ELSE IF HdrType(data) # TLV_struct_type.PerAntennaReceiveSensitivityRange
         THEN NoPar(data)
    ELSE LET length == HdrLength(data)
             body == Slice(data, par_header_len, length)
         IN  IF Len(body) # 6 THEN Raise
             ELSE Ok([AntennaID |-> U16At(body, 0),
                      ReceiveSensitivityIndexMin |-> U16At(body, 2),
                      ReceiveSensitivityIndexMax |-> U16At(body, 4)],
                     From(data, length))

\* PerAntennaAirProtocol: body[i] past the end of body raises IndexError
decode_PerAntennaAirProtocol(data) ==
    IF Len(data) = 0 THEN NoPar(data)
    ELSE IF Len(data) < par_header_len THEN Raise
    ELSE IF HdrType(data) # TLV_struct_type.PerAntennaAirProtocol THEN NoPar(data)
    ELSE LET length == HdrLength(data)
             body0 == Slice(data, par_header_len, length)
             fmt_len == 4
             body == From(body0, fmt_len)
             num == U16At(body0, 2)
         IN  IF Len(body0) < fmt_len THEN Raise
             ELSE IF Len(body) < num THEN Raise
             ELSE Ok(Upd([AntennaID |-> U16At(body0, 0), NumProtocols |-> num],
                         Numbered("ProtocolID", 1, [i \in 1..num |-> body[i]])),
                     From(data, length))

\* GPIOCapabilities: both numbers are assigned to par['NumGPIs'], the
\* second assignment last
decode_GPIOCapabilities(data) ==
    IF Len(data) = 0 THEN NoPar(data)
    ELSE IF Len(data) < par_header_len THEN Raise
    ELSE IF HdrType(data) # TLV_struct_type.GPIOCapabilities THEN NoPar(data)
    ELSE LET length == HdrLength(data)
             body == Slice(data, par_header_len, length)
         IN  IF Len(body) # 4 THEN Raise
             ELSE Ok(Upd([NumGPIs |-> U16At(body, 0)], [NumGPIs |-> U16At(body, 2)]),
                     From(data, length))

WithReceiveSensitivityTableEntry(acc) ==
    Child(acc, "ReceiveSensitivityTableEntry",
          decode_ReceiveSensitivityTableEntry(acc.rest))

WithPerAntennaReceiveSensitivityRange(acc) ==
    Child(acc, "PerAntennaReceiveSensitivityRange",
          decode_PerAntennaReceiveSensitivityRange(acc.rest))

WithGPIOCapabilities(acc) ==
    Child(acc, "GPIOCapabilities", decode_GPIOCapabilities(acc.rest))

WithPerAntennaAirProtocol(acc) ==
    Child(acc, "PerAntennaAirProtocol", decode_PerAntennaAirProtocol(acc.rest))

WithMaximumReceiveSensitivity(acc) ==
    Child(acc, "MaximumReceiveSensitivity",
          decode_MaximumReceiveSensitivity(acc.rest))

\* GeneralDeviceCapabilities: the fields of '!HHIIH', the firmware version,
\* then each child tried once
decode_GeneralDeviceCapabilities(data) ==
    IF Len(data) = 0 THEN NoPar(data)
    ELSE IF Len(data) < par_header_len THEN Raise
    ELSE IF HdrType(data) # TLV_struct_type.GeneralDeviceCapabilities THEN NoPar(data)
    ELSE LET length == HdrLength(data)
             body == Slice(data, par_header_len, length)
             fmt_len == 14
             flags == U16At(body, 2)
             pastVer == fmt_len + U16At(body, 12)
         IN  IF Len(body) < fmt_len THEN Raise
             ELSE Returning(
                      WithMaximumReceiveSensitivity(WithPerAntennaAirProtocol(
                      WithGPIOCapabilities(WithPerAntennaReceiveSensitivityRange(
                      WithReceiveSensitivityTableEntry(
                          Ok([MaxNumberOfAntennaSupported |-> U16At(body, 0),
                              DeviceManufacturerName |-> Slice(body, 4, 8),
                              ModelName |-> Slice(body, 8, 12),
                              FirmwareVersionByteCount |-> U16At(body, 12),
                              CanSetAntennaProperties |-> Bit(flags, 15) = 1,
                              HasUTCClockCapability |-> Bit(flags, 14) = 1,
                              ReaderFirmwareVersion |-> Slice(body, fmt_len, pastVer)],
                             From(body, pastVer))))))),
                      From(data, length))

(***************************************************************************)
(* FrequencyInformation and its tables.                                    *)
(***************************************************************************)
\* FrequencyHopTable: each frequency is stored as the tuple struct.unpack
\* returns; a body that ends before the last frequency raises struct.error
decode_FrequencyHopTable(data) ==
    IF Len(data) = 0 THEN NoPar(data)
    ELSE IF Len(data) < par_header_len THEN Raise
    ELSE IF HdrType(data) # TLV_struct_type.FrequencyHopTable THEN NoPar(data)
    ELSE LET length == HdrLength(data)
             body0 == Slice(data, par_header_len, length)
             fmt_len == 4
             id_fmt_len == 4
             body == From(body0, fmt_len)
             num == U16At(body0, 2)
         IN  IF Len(body0) < fmt_len THEN Raise
             ELSE IF Len(body) < num * id_fmt_len THEN Raise
             ELSE Ok(Upd([HopTableId |-> body0[1], NumHops |-> num],
                         Numbered("Frequency", 1,
                                  [x \in 1..num |->
                                     <<Slice(body, (x - 1) * id_fmt_len,
                                             x * id_fmt_len)>>])),
                     From(data, length))

\* FixedFrequencyTable: par['NumFrequencies'] is the tuple struct.unpack
\* returns, and int() of a tuple raises TypeError; a body shorter than the
\* count raises struct.error
decode_FixedFrequencyTable(data) ==
    IF Len(data) = 0 THEN NoPar(data)
    ELSE IF Len(data) < par_header_len THEN Raise
    ELSE IF HdrType(data) # TLV_struct_type.FixedFrequencyTable THEN NoPar(data)
    ELSE Raise

RECURSIVE decode_FrequencyInformation(_)

\* "while ret:" of decode_FrequencyInformation, r being the result of
\* TLV_decode('FrequencyHopTable')(body)
RECURSIVE FrequencyHopTableLoop(_, _, _)
FrequencyHopTableLoop(acc, i, r) ==
    IF r.st = "raise" THEN Raise
    ELSE IF Truthy(r)
         THEN FrequencyHopTableLoop(
                  Ok(Upd(acc.par, ("FrequencyHopTable" \o ToString(i)) :> r.par), r.rest),
                  i + 1, decode_FrequencyHopTable(r.rest))
         ELSE Ok(acc.par, r.rest)

WithFrequencyHopTables(acc) ==
    FrequencyHopTableLoop(acc, 0, decode_FrequencyHopTable(acc.rest))

\* TLV_decode('FixedFrequencyTable') is the function the registry holds
\* under that name: decode_FrequencyInformation
WithFixedFrequencyTable(acc) ==
    Child(acc, "FixedFrequencyTable", decode_FrequencyInformation(acc.rest))

decode_FrequencyInformation(data) ==
    IF Len(data) = 0 THEN NoPar(data)
    ELSE IF Len(data) < par_header_len THEN Raise
    ELSE IF HdrType(data) # TLV_struct_type.FrequencyInformation THEN NoPar(data)
    ELSE LET length == HdrLength(data)
             body == Slice(data, par_header_len, length)
             fmt_len == 1
         IN  IF Len(body) < fmt_len THEN Raise
             ELSE Returning(
                      WithFixedFrequencyTable(WithFrequencyHopTables(
                          Ok([Hopping |-> Bit(body[1], 7) = 1], From(body, fmt_len)))),
                      From(data, length))

(***************************************************************************)
(* Identification and ReaderEventNotificationSpec.                         *)
(***************************************************************************)
\* 17.2.6.2 Identification: ReaderID is unpacked with the format of
\* ByteCount - 2 bytes from the slice data[7:7 + ByteCount], and struct.unpack
\* raises unless the slice has exactly the size of the format
decode_Identification(data) ==
    IF Len(data) < 7 THEN Raise
    ELSE LET ByteCount == U16At(data, 5)
             endIdx == 7 + ByteCount
             ReaderID == Slice(data, 7, endIdx)
         IN  IF Len(ReaderID) # (IF ByteCount >= 2 THEN ByteCount - 2 ELSE 0) THEN Raise
             ELSE Ok([Type |-> U16At(data, 0), Length |-> U16At(data, 2),
                      IDType |-> data[5], ByteCount |-> ByteCount,
                      ReaderID |-> ReaderID],
                     From(data, endIdx))

\* "while getType(body) == TLV_struct['EventNotificationState']['type']:"
RECURSIVE EventNotificationStateLoop(_, _)
EventNotificationStateLoop(list, body) ==
    IF getTypeRaises(body) THEN Raise
    ELSE IF getType(body) # TLV_struct_type.EventNotificationState THEN Ok(list, body)
    ELSE LET r == decode_EventNotificationState(body)
         IN  IF r.st = "raise" THEN Raise
             ELSE EventNotificationStateLoop(Append(list, r.par), r.rest)

\* 17.2.7.5 ReaderEventNotificationSpec: returns the remainder of its loop
decode_ReaderEventNotificationSpec(data) ==
    IF Len(data) < 4 THEN Raise
    ELSE IF U16At(data, 0) # TLV_struct_type.ReaderEventNotificationSpec
         THEN Ok(<<>>, data)
    ELSE LET l == EventNotificationStateLoop(<<>>, From(data, 4))
         IN  IF l.st = "raise" THEN Raise
             ELSE Ok([Type |-> U16At(data, 0), Length |-> U16At(data, 2),
                      EventNotificationState |-> l.par],
                     l.rest)

(***************************************************************************)
(* The registry: TLV_struct[name]['decode'] and TLV_struct[name]['encode'] *)
(* hold functions, named here by their names.                              *)
(***************************************************************************)
TLV_struct_decode ==
    [ UTCTimestamp |-> "decode_UTCTimestamp", Uptime |-> "decode_Uptime",
      LLRPConfigurationStateValue |-> "decode_LLRPConfigurationStateValue",
      GPOWriteData |-> "decode_GPOWriteData",
      KeepaliveSpec |-> "decode_KeepaliveSpec",
      AntennaProperties |-> "decode_AntennaProperties",
      AntennaConfiguration |-> "decode_AntennaConfiguration",
      RFReceiver |-> "decode_RFReceiver", RFTransmitter |-> "decode_RFTransmitter",
      GPIPortCurrentState |-> "decode_GPIPortCurrentState",
      EventsAndReports |-> "decode_EventsAndReports",
      ROReportSpec |-> "decode_ROReportSpec",
      TagReportContentSelector |-> "decode_TagReportContentSelector",
      AccessReportSpec |-> "decode_AccessReportSpec",
      TagReportData |-> "decode_TagReportData", EPCData |-> "decode_EPCData",
      EventNotificationState |-> "decode_EventNotificationState",
      ReaderEventNotificationData |-> "decode_ReaderEventNotificationData",
      AntennaEvent |-> "decode_AntennaEvent",
      ConnectionAttemptEvent |-> "decode_ConnectionAttemptEvent",
      ConnectionCloseEvent |-> "decode_ConnectionCloseEvent",
      LLRPStatus |-> "decode_LLRPStatus", FieldError |-> "decode_FieldError",
      GeneralDeviceCapabilities |-> "decode_GeneralDeviceCapabilities",
      MaximumReceiveSensitivity |-> "decode_MaximumReceiveSensitivity",
      ReceiveSensitivityTableEntry |-> "decode_ReceiveSensitivityTableEntry",
      PerAntennaReceiveSensitivityRange |-> "decode_PerAntennaReceiveSensitivityRange",
      PerAntennaAirProtocol |-> "decode_PerAntennaAirProtocol",
      GPIOCapabilities |-> "decode_GPIOCapabilities",
      FrequencyInformation |-> "decode_FrequencyInformation",
      Identification |-> "decode_Identification",
      ReaderEventNotificationSpec |-> "decode_ReaderEventNotificationSpec",
      FrequencyHopTable |-> "decode_FrequencyHopTable",
      FixedFrequencyTable |-> "decode_FrequencyInformation",
      ParameterError |-> "decode_ParameterError",
      C1G2ReadOpSpecResult |-> "decode_OpSpecResult",
      C1G2WriteOpSpecResult |-> "decode_OpSpecResult",
      C1G2KillOpSpecResult |-> "decode_OpSpecResult",
      C1G2RecommissionOpSpecResult |-> "decode_OpSpecResult",
      C1G2LockOpSpecResult |-> "decode_OpSpecResult",
      C1G2BlockEraseOpSpecResult |-> "decode_OpSpecResult",
      C1G2BlockWriteOpSpecResult |-> "decode_OpSpecResult",
      C1G2BlockPermalockOpSpecResult |-> "decode_OpSpecResult",
      C1G2GetBlockPermalockStatusOpSpecResult |-> "decode_OpSpecResult" ]

\* the messages of the registry that have a decoder
Message_decode ==
    [ ADD_ROSPEC_RESPONSE |-> "decode_AddROSpecResponse",
      DELETE_ROSPEC_RESPONSE |-> "decode_DeleteROSpecResponse",
      START_ROSPEC_RESPONSE |-> "decode_StartROSpecResponse",
      STOP_ROSPEC_RESPONSE |-> "decode_StopROSpecResponse",
      ENABLE_ROSPEC_RESPONSE |-> "decode_EnableROSpecResponse",
      DISABLE_ROSPEC_RESPONSE |-> "decode_DisableROSpecResponse",
      ADD_ACCESSSPEC_RESPONSE |-> "decode_AddAccessSpecResponse",
      DELETE_ACCESSSPEC_RESPONSE |-> "decode_DeleteAccessSpecResponse",
      ENABLE_ACCESSSPEC_RESPONSE |-> "decode_EnableAccessSpecResponse",
      DISABLE_ACCESSSPEC_RESPONSE |-> "decode_DisableAccessSpecResponse",
      CLOSE_CONNECTION_RESPONSE |-> "decode_CloseConnectionResponse",
      SET_READER_CONFIG_RESPONSE |-> "decode_SET_READER_CONFIG",
      GET_READER_CONFIG_RESPONSE |-> "decode_GET_READER_CONFIG",
      ErrorMessage |-> "decode_ErrorMessage",
      RO_ACCESS_REPORT |-> "decode_ROAccessReport",
      READER_EVENT_NOTIFICATION |-> "decode_ReaderEventNotification" ]

TLV_struct_encode ==
    [ ROSpec |-> "encode_ROSpec", ROBoundarySpec |-> "encode_ROBoundarySpec",
      ROSpecStartTrigger |-> "encode_ROSpecStartTrigger",
      ROSpecStopTrigger |-> "encode_ROSpecStopTrigger",
      AISpec |-> "encode_AISpec", AISpecStopTrigger |-> "encode_AISpecStopTrigger",
      InventoryParameterSpec |-> "encode_InventoryParameterSpec",
      AntennaConfiguration |-> "encode_AntennaConfiguration",
      RFReceiver |-> "encode_RFReceiver", RFTransmitter |-> "encode_RFTransmitter",
      C1G2InventoryCommand |-> "encode_C1G2InventoryCommand",
      C1G2RFControl |-> "encode_C1G2RFControl",
      C1G2SingulationControl |-> "encode_C1G2SingulationControl",
      ROReportSpec |-> "encode_ROReportSpec",
      TagReportContentSelector |-> "encode_TagReportContentSelector",
      AccessSpec |-> "encode_AccessSpec",
      AccessSpecStopTrigger |-> "encode_AccessSpecStopTrigger",
      AccessCommand |-> "encode_AccessCommand",
      C1G2TagSpec |-> "encode_C1G2TagSpec", C1G2TargetTag |-> "encode_C1G2TargetTag",
      C1G2Read |-> "encode_C1G2Read", C1G2Write |-> "encode_C1G2Write",
      C1G2Lock |-> "encode_C1G2Lock", C1G2LockPayload |-> "encode_C1G2LockPayload",
      C1G2BlockWrite |-> "encode_C1G2Write",
      AccessReportSpec |-> "encode_AccessReportSpec" ]

\* TLV_decode(name)(data): the call of the function TLV_struct[name]["decode"]
TLV_decode(name, data) ==
    LET f == TLV_struct_decode[name]
    IN
    CASE f = "decode_UTCTimestamp" -> decode_UTCTimestamp(data)
      [] f = "decode_Uptime" -> decode_Uptime(data)
      [] f = "decode_LLRPConfigurationStateValue" -> decode_LLRPConfigurationStateValue(data)
      [] f = "decode_GPOWriteData" -> decode_GPOWriteData(data)
      [] f = "decode_KeepaliveSpec" -> decode_KeepaliveSpec(data)
      [] f = "decode_AntennaProperties" -> decode_AntennaProperties(data)
      [] f = "decode_AntennaConfiguration" -> decode_AntennaConfiguration(data)
      [] f = "decode_RFReceiver" -> decode_RFReceiver(data)
      [] f = "decode_RFTransmitter" -> decode_RFTransmitter(data)
      [] f = "decode_GPIPortCurrentState" -> decode_GPIPortCurrentState(data)
      [] f = "decode_EventsAndReports" -> decode_EventsAndReports(data)
      [] f = "decode_ROReportSpec" -> decode_ROReportSpec(data)
      [] f = "decode_TagReportContentSelector" -> decode_TagReportContentSelector(data)
      [] f = "decode_AccessReportSpec" -> decode_AccessReportSpec(data)
      [] f = "decode_TagReportData" -> decode_TagReportData(data)
      [] f = "decode_EPCData" -> decode_EPCData(data)
      [] f = "decode_EventNotificationState" -> decode_EventNotificationState(data)
      [] f = "decode_ReaderEventNotificationData" -> decode_ReaderEventNotificationData(data)
      [] f = "decode_AntennaEvent" -> decode_AntennaEvent(data)
      [] f = "decode_ConnectionAttemptEvent" -> decode_ConnectionAttemptEvent(data)
      [] f = "decode_ConnectionCloseEvent" -> decode_ConnectionCloseEvent(data)
      [] f = "decode_LLRPStatus" -> decode_LLRPStatus(data)
      [] f = "decode_FieldError" -> decode_FieldError(data)
      [] f = "decode_GeneralDeviceCapabilities" -> decode_GeneralDeviceCapabilities(data)
      [] f = "decode_MaximumReceiveSensitivity" -> decode_MaximumReceiveSensitivity(data)
      [] f = "decode_ReceiveSensitivityTableEntry" ->
             decode_ReceiveSensitivityTableEntry(data)
      [] f = "decode_PerAntennaReceiveSensitivityRange" ->
             decode_PerAntennaReceiveSensitivityRange(data)
      [] f = "decode_PerAntennaAirProtocol" -> decode_PerAntennaAirProtocol(data)
      [] f = "decode_GPIOCapabilities" -> decode_GPIOCapabilities(data)
      [] f = "decode_FrequencyInformation" -> decode_FrequencyInformation(data)
      [] f = "decode_Identification" -> decode_Identification(data)
      [] f = "decode_ReaderEventNotificationSpec" ->
             decode_ReaderEventNotificationSpec(data)
      [] f = "decode_FrequencyHopTable" -> decode_FrequencyHopTable(data)
      [] f = "decode_ParameterError" -> decode_ParameterError(data)
      [] f = "decode_OpSpecResult" -> decode_OpSpecResult(data)

\* TLV_encode(name)(par): the call of the function TLV_struct[name]["encode"]
TLV_encode(name, par) ==
    LET f == TLV_struct_encode[name]
    IN
    CASE f = "encode_ROSpec" -> encode_ROSpec(par)
      [] f = "encode_ROBoundarySpec" -> encode_ROBoundarySpec(par)
      [] f = "encode_ROSpecStartTrigger" -> encode_ROSpecStartTrigger(par)
      [] f = "encode_ROSpecStopTrigger" -> encode_ROSpecStopTrigger(par)
      [] f = "encode_AISpec" -> encode_AISpec(par)
      [] f = "encode_AISpecStopTrigger" -> encode_AISpecStopTrigger(par)
      [] f = "encode_InventoryParameterSpec" -> encode_InventoryParameterSpec(par)
      [] f = "encode_AntennaConfiguration" -> encode_AntennaConfiguration(par)
      [] f = "encode_RFReceiver" -> encode_RFReceiver(par)
      [] f = "encode_RFTransmitter" -> encode_RFTransmitter(par)
      [] f = "encode_C1G2InventoryCommand" -> encode_C1G2InventoryCommand(par)
      [] f = "encode_C1G2RFControl" -> encode_C1G2RFControl(par)
      [] f = "encode_C1G2SingulationControl" -> encode_C1G2SingulationControl(par)
      [] f = "encode_ROReportSpec" -> encode_ROReportSpec(par)
      [] f = "encode_TagReportContentSelector" -> encode_TagReportContentSelector(par)
      [] f = "encode_AccessSpec" -> encode_AccessSpec(par)
      [] f = "encode_AccessSpecStopTrigger" -> encode_AccessSpecStopTrigger(par)
      [] f = "encode_AccessCommand" -> encode_AccessCommand(par)
      [] f = "encode_C1G2TagSpec" -> encode_C1G2TagSpec(par)
      [] f = "encode_C1G2TargetTag" -> encode_C1G2TargetTag(par)
      [] f = "encode_C1G2Read" -> encode_C1G2Read(par)
      [] f = "encode_C1G2Write" -> encode_C1G2Write(par)
      [] f = "encode_C1G2Lock" -> encode_C1G2Lock(par)
      [] f = "encode_C1G2LockPayload" -> encode_C1G2LockPayload(par)
      [] f = "encode_AccessReportSpec" -> encode_AccessReportSpec(par)

(***************************************************************************)
(* GET_READER_CONFIG_RESPONSE.                                             *)
(***************************************************************************)
\* "if getType(body) == TLV_struct[name]['type']:" with, inside it,
\* "ret, body = TLV_decode(name)(body)", "if ret: msg[name] = ret" and
\* "else: raise LLRPError(...)"
Optional(acc, name) ==
    IF acc.st # "ok" THEN acc
    ELSE IF getTypeRaises(acc.rest) THEN Raise
    ELSE IF getType(acc.rest) = TLV_struct_type[name]
         THEN Required(acc, name, TLV_decode(name, acc.rest))
         ELSE acc

\* "while getType(body) == TLV_struct[name]['type']:" after an iteration on
\* the buffer body whose decoder returned r.  Each iteration is a function
\* of the buffer, so the loop that leaves the buffer unchanged never ends.
RECURSIVE RepeatedLoop(_, _, _, _)
RepeatedLoop(name, list, body, r) ==
    IF r.st = "raise" THEN Raise
    ELSE IF ~Truthy(r) THEN Raise
    ELSE IF r.rest = body THEN Diverge
    ELSE IF getTypeRaises(r.rest) THEN Raise
    ELSE IF getType(r.rest) = TLV_struct_type[name]
         THEN RepeatedLoop(name, Append(list, r.par), r.rest, TLV_decode(name, r.rest))
         ELSE Ok(Append(list, r.par), r.rest)

\* "msg[name] = []" and the list and buffer l the loop ends with
Listed(acc, name, l) ==
    IF l.st # "ok" THEN l ELSE Ok(Upd(acc.par, name :> l.par), l.rest)

\* "if getType(body) == TLV_struct[name]['type']:" with the loop inside it
Repeated(acc, name) ==
    IF acc.st # "ok" THEN acc
    ELSE IF getTypeRaises(acc.rest) THEN Raise
    ELSE IF getType(acc.rest) = TLV_struct_type[name]
         THEN Listed(acc, name,
                     RepeatedLoop(name, <<>>, acc.rest, TLV_decode(name, acc.rest)))
         ELSE acc

\* 17.1.41 GET_READER_CONFIG_RESPONSE
decode_GET_READER_CONFIG(data) ==
    Returning(
        Optional(Repeated(Repeated(
        Optional(Optional(Optional(Optional(Optional(
        Repeated(Repeated(Optional(
            Required(Ok(<<>>, data), "LLRPStatus", TLV_decode("LLRPStatus", data)),
            "Identification"),
            "AntennaProperties"), "AntennaConfiguration"),
            "ReaderEventNotificationSpec"), "ROReportSpec"), "AccessReportSpec"),
            "LLRPConfigurationStateValue"), "KeepaliveSpec"),
            "GPIPortCurrentState"), "GPOWriteData"),
            "EventsAndReports"),
        <<>>)

\* TV_struct[...]['decode']
TV_struct_decode == [ ROSpecID |-> "decode_ROSpecID", EPC96 |-> "decode_EPC96" ]

\* TV_struct[name]['decode'](data)
TV_decode(name, data) ==
    LET f == TV_struct_decode[name]
    IN  CASE f = "decode_ROSpecID" -> decode_ROSpecID(data)
          [] f = "decode_EPC96" -> decode_EPC96(data)

\* TLV_struct[<message>]['encode']
Message_encode == [ SET_READER_CONFIG |-> "encode_SET_READER_CONFIG" ]

\* TLV_encode(message)(par)
Message_encode_call(name, par) ==
    LET f == Message_encode[name]
    IN  CASE f = "encode_SET_READER_CONFIG" -> encode_SET_READER_CONFIG(par)

\* TLV_decode(name)(body) for a message of the registry
Message_decode_call(name, body) ==
    LET f == Message_decode[name]
    IN
    CASE f = "decode_AddROSpecResponse" -> decode_AddROSpecResponse(body)
      [] f = "decode_DeleteROSpecResponse" -> decode_DeleteROSpecResponse(body)
      [] f = "decode_StartROSpecResponse" -> decode_StartROSpecResponse(body)
      [] f = "decode_StopROSpecResponse" -> decode_StopROSpecResponse(body)
      [] f = "decode_EnableROSpecResponse" -> decode_EnableROSpecResponse(body)
      [] f = "decode_DisableROSpecResponse" -> decode_DisableROSpecResponse(body)
      [] f = "decode_AddAccessSpecResponse" -> decode_AddAccessSpecResponse(body)
      [] f = "decode_DeleteAccessSpecResponse" -> decode_DeleteAccessSpecResponse(body)
      [] f = "decode_EnableAccessSpecResponse" -> decode_EnableAccessSpecResponse(body)
      [] f = "decode_DisableAccessSpecResponse" -> decode_DisableAccessSpecResponse(body)
      [] f = "decode_CloseConnectionResponse" -> decode_CloseConnectionResponse(body)
      [] f = "decode_SET_READER_CONFIG" -> decode_SET_READER_CONFIG(body)
      [] f = "decode_GET_READER_CONFIG" -> decode_GET_READER_CONFIG(body)
      [] f = "decode_ErrorMessage" -> decode_ErrorMessage(body)
      [] f = "decode_ROAccessReport" -> decode_ROAccessReport(body)
      [] f = "decode_ReaderEventNotification" -> decode_ReaderEventNotification(body)

(***************************************************************************)
(* The values given to the encoders.                                       *)
(***************************************************************************)
(***************************************************************************)
(* LLRPROSpec, the builder of ROSpec values.  An optional argument is the  *)
(* empty sequence for None and <<v>> for the value v; False and True are  *)
(* 0 and 1, as the encoders read them.                                     *)
(***************************************************************************)
AirProtocol == [ UnspecifiedAirProtocol |-> 0, EPCGlobalClass1Gen2 |-> 1 ]

\* str(n) of an int n >= 0, as a sequence of digit characters
RECURSIVE str_int(_)
str_int(n) ==
    LET last == CHOOSE c \in DOMAIN Digit : Digit[c] = n % 10
    IN  IF n < 10 THEN <<last>> ELSE str_int(n \div 10) \o <<last>>

\* ' '.join(strs)
RECURSIVE join(_)
join(strs) ==
    IF Len(strs) = 0 THEN <<>>
    ELSE IF Len(strs) = 1 THEN strs[1]
    ELSE strs[1] \o <<" ">> \o join(Tail(strs))

\* the default flags of the builder, updated with tag_content_selector
tagReportContentSelector(tag_content_selector) ==
    Upd([EnableROSpecID |-> 0, EnableSpecIndex |-> 0,
         EnableInventoryParameterSpecID |-> 0, EnableAntennaID |-> 1,
         EnableChannelIndex |-> 0, EnablePeakRRSI |-> 1,
         EnableFirstSeenTimestamp |-> 0, EnableLastSeenTimestamp |-> 1,
         EnableTagSeenCount |-> 1, EnableAccessSpecID |-> 0],
        tag_content_selector)

\* the AntennaConfiguration the builder appends for antid, with the mode
\* index and the Tari exchanged
PerAntennaConfiguration_Exchanged(antid, tx_power, mode_index, tari, session, tag_population) ==
    [AntennaID |-> antid,
     RFTransmitter |-> [HopTableId |-> 1, ChannelIndex |-> 1,
                        TransmitPower |-> tx_power],
     C1G2InventoryCommand |->
        [TagInventoryStateAware |-> 0,
         C1G2RFControl |-> [ModeIndex |-> tari, Tari |-> mode_index],
         C1G2SingulationControl |->
            [Session |-> session, TagPopulation |-> tag_population,
             TagTransitTime |-> 0]]]

\* "patch up per-antenna config": the AntennaConfiguration appended for antid
PerAntennaConfiguration(antid, tx_power, mode_index, tari, session, tag_population) ==
    [AntennaID |-> antid,
     RFTransmitter |-> [HopTableId |-> 1, ChannelIndex |-> 1,
                        TransmitPower |-> tx_power],
     C1G2InventoryCommand |->
        [TagInventoryStateAware |-> 0,
         C1G2RFControl |-> [ModeIndex |-> mode_index, Tari |-> tari],
         C1G2SingulationControl |->
            [Session |-> session, TagPopulation |-> tag_population,
             TagTransitTime |-> 0]]]

\* the ROSpecStopTrigger of the builder without "if duration_sec is not None"
StopTriggerOf_Null(duration_sec) ==
    [ROSpecStopTriggerType |-> "Null", DurationTriggerValue |-> 0]

\* the ROSpecStopTrigger of the builder: Null, replaced when a duration is given
StopTriggerOf(duration_sec) ==
    IF Len(duration_sec) = 0
    THEN [ROSpecStopTriggerType |-> "Null", DurationTriggerValue |-> 0]
    ELSE [ROSpecStopTriggerType |-> "Duration",
          DurationTriggerValue |-> duration_sec[1] * 1000]

\* the result of a constructor: the object, or the exception it raised
Built(self) == [st |-> "ok", self |-> self]

NotBuilt == [st |-> "raise", self |-> <<>>]

\* LLRPROSpec(llrpcli, msgid, priority, state, antennas, tx_power,
\*            duration_sec, report_every_n_tags, tag_content_selector,
\*            session, tag_population), a the record of the arguments
LLRPROSpec(a) ==
    IF a.msgid <= 0 THEN NotBuilt
    ELSE IF a.priority < 0 \/ a.priority > 7 THEN NotBuilt
    ELSE IF a.state \notin DOMAIN ROSpecState_Name2Type THEN NotBuilt
    ELSE LET mode_index == a.llrpcli.reader_mode.ModeIdentifier
             tari == a.llrpcli.reader_mode.MaxTari
         IN  Built([ROSpec |->
                [ROSpecID |-> a.msgid,
                 Priority |-> a.priority,
                 CurrentState |-> a.state,
                 ROBoundarySpec |->
                    [ROSpecStartTrigger |-> [ROSpecStartTriggerType |-> "Immediate"],
                     ROSpecStopTrigger |-> StopTriggerOf(a.duration_sec)],
                 AISpec |->
                    [AntennaIDs |->
                        [kind |-> "str", list |-> <<>>,
                         str |-> join([i \in 1..Len(a.antennas) |->
                                          str_int(a.antennas[i])])],
                     AISpecStopTrigger |->
                        [AISpecStopTriggerType |-> "Duration",
                         DurationTriggerValue |-> 500],
                     InventoryParameterSpec |->
                        [InventoryParameterSpecID |-> 1,
                         ProtocolID |-> AirProtocol.EPCGlobalClass1Gen2,
                         AntennaConfiguration |->
                            [i \in 1..Len(a.antennas) |->
                                PerAntennaConfiguration(
                                    a.antennas[i], a.tx_power, mode_index, tari,
                                    a.session, a.tag_population)]]],
                 ROReportSpec |->
                    [ROReportTrigger |-> Name("Upon_N_Tags_Or_End_Of_AISpec"),
                     N |-> IF Len(a.report_every_n_tags) = 0 THEN 1
                           ELSE a.report_every_n_tags[1],
                     TagReportContentSelector |->
                        tagReportContentSelector(a.tag_content_selector)]]])

RFReceiverValues == { [ReceiverSensitivity |-> 12] }

RFTransmitterValues == { [HopTableId |-> 1, ChannelIndex |-> 0, TransmitPower |-> 91] }

C1G2RFControlValues == { [ModeIndex |-> 1000, Tari |-> 6250] }

C1G2SingulationControlValues ==
    { [Session |-> s, TagPopulation |-> 4, TagTransitTime |-> 0] : s \in {0, 2, 4} }

C1G2InventoryCommandValues ==
    { [TagInventoryStateAware |-> 0] }
    \cup { [TagInventoryStateAware |-> a, C1G2RFControl |-> rf,
            C1G2SingulationControl |-> sc] :
              a \in {0, 1}, rf \in C1G2RFControlValues,
              sc \in C1G2SingulationControlValues }

AntennaConfigurationValues ==
    { [AntennaID |-> 1] }
    \cup { [AntennaID |-> 1, RFReceiver |-> rx] : rx \in RFReceiverValues }
    \cup { [AntennaID |-> 2, RFTransmitter |-> tx] : tx \in RFTransmitterValues }
    \cup { [AntennaID |-> 1, RFReceiver |-> rx, RFTransmitter |-> tx,
            C1G2InventoryCommand |-> ic] :
              rx \in RFReceiverValues, tx \in RFTransmitterValues,
              ic \in C1G2InventoryCommandValues }

InventoryParameterSpecValues ==
    { [InventoryParameterSpecID |-> 1, ProtocolID |-> 1, AntennaConfiguration |-> l] :
        l \in { <<>> } \cup { <<a>> : a \in AntennaConfigurationValues }
              \cup { <<[AntennaID |-> 1], a>> : a \in AntennaConfigurationValues } }

AISpecStopTriggerValues ==
    { [AISpecStopTriggerType |-> "Null", DurationTriggerValue |-> 0],
      [AISpecStopTriggerType |-> "Duration", DurationTriggerValue |-> 2000] }

\* AntennaIDs as a list of ints and as a str of numerals
AntennaIDsValues ==
    { [kind |-> "list", list |-> l, str |-> <<>>] : l \in { <<>>, <<1>>, <<1, 2>> } }
    \cup { [kind |-> "str", list |-> <<>>, str |-> <<"1", " ", "1", "0">>] }

AISpecValues ==
    { [AntennaIDs |-> ids, AISpecStopTrigger |-> t, InventoryParameterSpec |-> ips] :
        ids \in AntennaIDsValues, t \in AISpecStopTriggerValues,
        ips \in { v \in InventoryParameterSpecValues : Len(v.AntennaConfiguration) = 1 } }

ROSpecStartTriggerValues ==
    { [ROSpecStartTriggerType |-> t] : t \in {"Null", "Immediate"} }

ROSpecStopTriggerValues ==
    { [ROSpecStopTriggerType |-> "Null", DurationTriggerValue |-> 0],
      [ROSpecStopTriggerType |-> "Duration", DurationTriggerValue |-> 2000] }

ROBoundarySpecValues ==
    { [ROSpecStartTrigger |-> a, ROSpecStopTrigger |-> b] :
        a \in ROSpecStartTriggerValues, b \in ROSpecStopTriggerValues }

\* flag mappings: no key, every key set, and one key set among the ten
TagReportContentSelectorValues ==
    { <<>> }
    \cup { [f \in { TagReportContentSelector_fields[i] :
                      i \in 1..Len(TagReportContentSelector_fields) } |-> b] :
             b \in {0, 1} }
    \cup { [f \in { TagReportContentSelector_fields[i] :
                      i \in 1..Len(TagReportContentSelector_fields) } |->
                IF f = TagReportContentSelector_fields[k] THEN 1 ELSE 0] :
             k \in 1..Len(TagReportContentSelector_fields) }

ROReportSpecValues ==
    { [ROReportTrigger |-> Name(t), N |-> n, TagReportContentSelector |-> sel] :
        t \in DOMAIN ROReportTrigger_Name2Type, n \in {0, 1, 65535},
        sel \in TagReportContentSelectorValues }

\* ROSpecID below, at and above 2^10
ROSpecIDValues == {0, 1, 1023, 1024, 1025, 70000}

ROSpecValues ==
    { [ROSpecID |-> id, Priority |-> p, CurrentState |-> "Disabled",
       ROBoundarySpec |-> b, AISpec |-> a, ROReportSpec |-> r] :
        id \in ROSpecIDValues, p \in {0, 7},
        b \in { v \in ROBoundarySpecValues :
                  v.ROSpecStartTrigger.ROSpecStartTriggerType = "Immediate" },
        a \in { v \in AISpecValues :
                  /\ v.AISpecStopTrigger.AISpecStopTriggerType = "Null"
                  /\ DOMAIN v.InventoryParameterSpec.AntennaConfiguration[1]
                       \in { {"AntennaID"}, {"AntennaID", "RFTransmitter"} }
                  /\ v.AntennaIDs.kind = "list" },
        r \in { v \in ROReportSpecValues :
                  /\ v.N = 1 /\ v.ROReportTrigger.str = "Upon_N_Tags_Or_End_Of_ROSpec"
                  /\ DOMAIN v.TagReportContentSelector = {} } }

AccessSpecStopTriggerValues ==
    { [AccessSpecStopTriggerType |-> 1, OperationCountValue |-> 5] }

C1G2TargetTagValues ==
    { [MB |-> 1, M |-> 1, Pointer |-> 32, MaskBitCount |-> 16,
       TagMask |-> <<171, 205>>, DataBitCount |-> 0, TagData |-> <<>>],
      [MB |-> 2, M |-> 0, Pointer |-> 0, MaskBitCount |-> 0,
       TagMask |-> <<>>, DataBitCount |-> 9, TagData |-> <<1>>] }

RECURSIVE ListsUpTo(_, _)
ListsUpTo(S, n) ==
    IF n = 0 THEN { <<>> }
    ELSE LET shorter == ListsUpTo(S, n - 1)
         IN  shorter \cup { Append(l, x) : l \in shorter, x \in S }

C1G2TagSpecValues ==
    { [C1G2TargetTag |-> l] : l \in ListsUpTo(C1G2TargetTagValues, MaxTargets) }

C1G2ReadValues ==
    { [OpSpecID |-> 1, AccessPassword |-> 0, MB |-> 3, WordPtr |-> 0, WordCount |-> 2] }

C1G2WriteValues ==
    { [OpSpecID |-> 2, AccessPassword |-> 0, MB |-> 3, WordPtr |-> 0,
       WriteDataWordCount |-> n, WriteData |-> d] :
         n \in {0, 1, 2}, d \in { <<18, 52>>, <<18, 52, 86, 120>> } }

C1G2LockPayloadValues ==
    { [Privilege |-> 1, DataField |-> 4], [Privilege |-> 0, DataField |-> -1] }

C1G2LockValues ==
    { [OpSpecID |-> 3, AccessPassword |-> 0, LockPayload |-> l] :
        l \in { <<p>> : p \in C1G2LockPayloadValues }
              \cup { <<p, q>> : p, q \in C1G2LockPayloadValues } }

OpSpecParameterValues == C1G2ReadValues \cup C1G2WriteValues \cup C1G2LockValues

AccessCommandValues ==
    { [TagSpecParameter |-> t, OpSpecParameter |-> o] :
        t \in C1G2TagSpecValues, o \in OpSpecParameterValues }

AccessReportSpecValues == { [AccessReportTrigger |-> 1] }

AccessSpecValues ==
    { [AccessSpecID |-> 1, AntennaID |-> 0, ProtocolID |-> 1, C |-> c,
       ROSpecID |-> 1, AccessSpecStopTrigger |-> st, AccessCommand |-> ac] :
        c \in {0, 1}, st \in AccessSpecStopTriggerValues,
        ac \in { v \in AccessCommandValues :
                   Len(v.TagSpecParameter.C1G2TargetTag) <= 1 } }
    \cup { [AccessSpecID |-> 1, AntennaID |-> 0, ProtocolID |-> 1, C |-> 0,
            ROSpecID |-> 1, AccessSpecStopTrigger |-> st, AccessCommand |-> ac,
            AccessReportSpec |-> rs] :
             st \in AccessSpecStopTriggerValues, rs \in AccessReportSpecValues,
             ac \in { v \in AccessCommandValues :
                        /\ Len(v.TagSpecParameter.C1G2TargetTag) = 1
                        /\ "WordCount" \in DOMAIN v.OpSpecParameter } }

\* every assignment of the ten flags of TagReportContentSelector
SelectorAssignments ==
    [ { TagReportContentSelector_fields[i] :
          i \in 1..Len(TagReportContentSelector_fields) } -> {0, 1} ]

\* target tags whose TagMask and TagData are shorter than, as long as and
\* longer than their bit counts ask for
C1G2TargetTagBitStrings ==
    { [MB |-> 1, M |-> 1, Pointer |-> 32, MaskBitCount |-> m, TagMask |-> mask,
       DataBitCount |-> d, TagData |-> data] :
        m \in {0, 1, 8, 9, 16}, mask \in { <<>>, <<171>>, <<171, 205, 239>> },
        d \in {0, 9}, data \in { <<1>>, <<1, 2, 3>> } }

\* the values given to the encoder the registry holds under name
EncoderValues(name) ==
    CASE name = "ROSpec" -> ROSpecValues
      [] name = "ROBoundarySpec" -> ROBoundarySpecValues
      [] name = "ROSpecStartTrigger" -> ROSpecStartTriggerValues
      [] name = "ROSpecStopTrigger" -> ROSpecStopTriggerValues
      [] name = "AISpec" -> AISpecValues
      [] name = "AISpecStopTrigger" -> AISpecStopTriggerValues
      [] name = "InventoryParameterSpec" -> InventoryParameterSpecValues
      [] name = "AntennaConfiguration" -> AntennaConfigurationValues
      [] name = "RFReceiver" -> RFReceiverValues
      [] name = "RFTransmitter" -> RFTransmitterValues
      [] name = "C1G2InventoryCommand" -> C1G2InventoryCommandValues
      [] name = "C1G2RFControl" -> C1G2RFControlValues
      [] name = "C1G2SingulationControl" -> C1G2SingulationControlValues
      [] name = "ROReportSpec" -> ROReportSpecValues
      [] name = "TagReportContentSelector" ->
             TagReportContentSelectorValues \cup SelectorAssignments
      [] name = "AccessSpec" -> AccessSpecValues
      [] name = "AccessSpecStopTrigger" -> AccessSpecStopTriggerValues
      [] name = "AccessCommand" -> AccessCommandValues
      [] name = "C1G2TagSpec" -> C1G2TagSpecValues
      [] name = "C1G2TargetTag" -> C1G2TargetTagValues \cup C1G2TargetTagBitStrings
      [] name = "C1G2Read" -> C1G2ReadValues
      [] name = "C1G2Write" -> C1G2WriteValues
      [] name = "C1G2Lock" -> C1G2LockValues
      [] name = "C1G2LockPayload" -> C1G2LockPayloadValues
      [] name = "C1G2BlockWrite" -> C1G2WriteValues
      [] name = "AccessReportSpec" -> AccessReportSpecValues

(***************************************************************************)
(* The buffers given to the decoders: parameters as a reader puts them on  *)
(* the wire, alone, followed by further bytes, cut short, and with bytes   *)
(* the decoder does not know.                                              *)
(***************************************************************************)
\* a TLV parameter: type, length, body
TLV(type, body) == U16(type) \o U16(Len(body) + par_header_len) \o body

Microseconds == <<0, 0, 0, 0, 0, 0, 0, 1>>

UTCTimestampWire == TLV(TLV_struct_type.UTCTimestamp, Microseconds)

UptimeWire == TLV(TLV_struct_type.Uptime, Microseconds)

ConnectionAttemptEventWire == TLV(TLV_struct_type.ConnectionAttemptEvent, U16(0))

AntennaEventWire == TLV(TLV_struct_type.AntennaEvent, <<1>> \o U16(1))

ConnectionCloseEventWire == TLV(TLV_struct_type.ConnectionCloseEvent, <<>>)

\* the first children of a ReaderEventNotificationData
TimestampWires ==
    { <<>>, UTCTimestampWire, UptimeWire, UTCTimestampWire \o UptimeWire }

\* its event children, in several orders
EventWires ==
    { <<>>, ConnectionAttemptEventWire, AntennaEventWire, ConnectionCloseEventWire,
      ConnectionAttemptEventWire \o AntennaEventWire,
      AntennaEventWire \o ConnectionAttemptEventWire,
      AntennaEventWire \o ConnectionCloseEventWire,
      ConnectionAttemptEventWire \o ConnectionCloseEventWire,
      AntennaEventWire \o ConnectionAttemptEventWire \o ConnectionCloseEventWire,
      ConnectionAttemptEventWire \o AntennaEventWire \o ConnectionCloseEventWire,
      TLV(TLV_struct_type.ConnectionAttemptEvent, U16(9)) }

ReaderEventNotificationDataWires ==
    { TLV(TLV_struct_type.ReaderEventNotificationData, t \o e \o j) :
        t \in TimestampWires, e \in EventWires, j \in { <<>>, <<0>> } }

\* bytes that follow a parameter in a buffer
Trailers == { <<>>, <<0>>, UptimeWire }

ReaderEventNotificationBodies ==
    { <<>> } \cup { w \o t : w \in ReaderEventNotificationDataWires, t \in Trailers }

FieldErrorWire == TLV(TLV_struct_type.FieldError, U16(3) \o U16(Error_Name2Type.A_Invalid))

\* a ParameterError holding n further ParameterErrors, one inside the other
RECURSIVE ParameterErrorWire(_, _)
ParameterErrorWire(n, fe) ==
    TLV(TLV_struct_type.ParameterError,
        U16(TLV_struct_type.ROSpec) \o U16(Error_Name2Type.P_FieldError) \o fe
            \o (IF n = 0 THEN <<>> ELSE ParameterErrorWire(n - 1, fe)))

StatusChildWires ==
    { <<>>, FieldErrorWire, <<0>>, UptimeWire }
    \cup { ParameterErrorWire(n, fe) : n \in 0..MaxNest, fe \in { <<>>, FieldErrorWire } }
    \cup { FieldErrorWire \o ParameterErrorWire(0, <<>>) }
    \cup { FieldErrorWire \o UptimeWire, ParameterErrorWire(0, <<>>) \o <<0>>,
           ParameterErrorWire(0, <<>>) \o FieldErrorWire }

LLRPStatusWires ==
    { TLV(TLV_struct_type.LLRPStatus, U16(code) \o U16(Len(desc)) \o desc \o c) :
        code \in {0, 100, 999}, desc \in { <<>>, <<111, 107>> }, c \in StatusChildWires }

\* the bodies of the messages that carry an LLRPStatus
StatusBodies ==
    { <<>>, UptimeWire, <<1, 31, 0>> }
    \cup { w \o t : w \in LLRPStatusWires, t \in Trailers }

EPC == <<48, 8, 51, 178, 221, 217, 1, 64, 0, 0, 0, 0>>

EPCDataWire == TLV(TLV_struct_type.EPCData, U16(96) \o EPC)

\* a TV parameter: the marker bit and the type in one byte, then the value
TV(type, value) == <<128 + type>> \o value

EPC96Wire == TV(TV_struct_type.EPC96, EPC)

\* the first bytes of the body of a TagReportData
EPCWires ==
    { <<>>, EPCDataWire, EPC96Wire, TLV(TLV_struct_type.EPCData, U16(0)),
      EPCDataWire \o EPC96Wire,
      <<TV_struct_type.EPC96>> \o EPC,
      TV(TV_struct_type.EPC96, <<48, 8>>),
      TV(1, U16(1)), UptimeWire, TLV(TLV_struct_type.EPCData, <<>>) }

TVWires ==
    { <<>>, TV(1, U16(1)), TV(1, U16(1)) \o TV(6, <<200>>) \o TV(8, U16(3)),
      TV(9, U32(1)), TV(1, <<0>>) }

OpSpecResultWires ==
    { <<>>,
      TLV(TLV_struct_type.C1G2ReadOpSpecResult, <<0>> \o U16(1) \o U16(1) \o <<171, 205>>),
      TLV(TLV_struct_type.C1G2WriteOpSpecResult, <<0>> \o U16(2) \o U16(1)),
      TLV(TLV_struct_type.C1G2LockOpSpecResult, <<0>> \o U16(3)),
      UptimeWire }

TagReportDataWires ==
    { TLV(TLV_struct_type.TagReportData, e \o t \o o) :
        e \in EPCWires, t \in TVWires, o \in OpSpecResultWires }

\* the bodies of RO_ACCESS_REPORT: up to MaxReports TagReportData
ROAccessReportBodies ==
    LET reports == { w \in TagReportDataWires : Len(w) <= 20 }
        lists == ListsUpTo(reports, MaxReports)
    IN  { Cat(l) \o t : l \in lists, t \in { <<>>, <<0>> } }

\* parameters of the reader's configuration, as the encoders write them
ConfigurationWires ==
    { encode_ROReportSpec(v) : v \in ROReportSpecValues }
    \cup { encode_TagReportContentSelector(v) : v \in TagReportContentSelectorValues }
    \cup { encode_AntennaConfiguration(v) :
             v \in { a \in AntennaConfigurationValues :
                       "C1G2InventoryCommand" \notin DOMAIN a } }
    \cup { encode_RFReceiver(v) : v \in RFReceiverValues }
    \cup { encode_RFTransmitter(v) : v \in RFTransmitterValues }
    \cup { encode_AccessReportSpec(v) : v \in AccessReportSpecValues }
    \cup { TLV(TLV_struct_type.LLRPConfigurationStateValue, U32(7)),
           TLV(TLV_struct_type.GPOWriteData, U16(1) \o <<128>>),
           TLV(TLV_struct_type.KeepaliveSpec, <<1>> \o U32(1000)),
           TLV(TLV_struct_type.AntennaProperties, <<128>> \o U16(1) \o U16(0)),
           TLV(TLV_struct_type.GPIPortCurrentState, U16(1) \o <<128, 1>>),
           TLV(TLV_struct_type.EventsAndReports, <<128>>),
           TLV(TLV_struct_type.EventNotificationState, U16(1) \o <<128>>) }

ReceiveSensitivityTableEntryWire(i) ==
    TLV(TLV_struct_type.ReceiveSensitivityTableEntry, U16(i) \o U16(10 + i))

PerAntennaReceiveSensitivityRangeWire(i) ==
    TLV(TLV_struct_type.PerAntennaReceiveSensitivityRange, U16(i) \o U16(0) \o U16(1))

PerAntennaAirProtocolWire(i) ==
    TLV(TLV_struct_type.PerAntennaAirProtocol, U16(i) \o U16(1) \o <<1>>)

GPIOCapabilitiesWire(a, b) == TLV(TLV_struct_type.GPIOCapabilities, U16(a) \o U16(b))

\* the pairs (NumGPIs, NumGPOs) on the wire
GPIOCounts == { <<0, 0>>, <<4, 4>>, <<4, 8>>, <<0, 65535>> }

MaximumReceiveSensitivityWire == TLV(TLV_struct_type.MaximumReceiveSensitivity, U16(5))

\* a GeneralDeviceCapabilities with k, j and m repeated children, with a
\* GPIOCapabilities if g and a MaximumReceiveSensitivity if x
GeneralDeviceCapabilitiesWire(k, j, m, g, x) ==
    TLV(TLV_struct_type.GeneralDeviceCapabilities,
        U16(4) \o U16(32768) \o U32(1) \o U32(2) \o U16(1) \o <<65>>
            \o Cat([i \in 1..k |-> ReceiveSensitivityTableEntryWire(i)])
            \o Cat([i \in 1..j |-> PerAntennaReceiveSensitivityRangeWire(i)])
            \o (IF g THEN GPIOCapabilitiesWire(4, 8) ELSE <<>>)
            \o Cat([i \in 1..m |-> PerAntennaAirProtocolWire(i)])
            \o (IF x THEN MaximumReceiveSensitivityWire ELSE <<>>))

GeneralDeviceCapabilitiesWires ==
    { GeneralDeviceCapabilitiesWire(k, j, m, g, x) :
        k \in 0..MaxEntries, j \in 0..MaxEntries, m \in 0..MaxEntries,
        g \in BOOLEAN, x \in BOOLEAN }

CapabilityChildWires ==
    { ReceiveSensitivityTableEntryWire(1), PerAntennaReceiveSensitivityRangeWire(1),
      PerAntennaAirProtocolWire(1), MaximumReceiveSensitivityWire,
      TLV(TLV_struct_type.PerAntennaAirProtocol, U16(1) \o U16(2) \o <<1>>) }
    \cup { GPIOCapabilitiesWire(c[1], c[2]) : c \in GPIOCounts }

\* the i-th frequency of the tables on the wire
FrequencyBytes(i) == U32(900 + i)

FrequencyHopTableWire(id, n) ==
    TLV(TLV_struct_type.FrequencyHopTable,
        <<id, 0>> \o U16(n) \o Cat([x \in 1..n |-> FrequencyBytes(x)]))

FixedFrequencyTableWire(n) ==
    TLV(TLV_struct_type.FixedFrequencyTable,
        U16(n) \o Cat([x \in 1..n |-> FrequencyBytes(x)]))

FixedFrequencyTableWires == { FixedFrequencyTableWire(n) : n \in 0..MaxFrequencies }

\* a FrequencyInformation with h FrequencyHopTable children followed by the
\* bytes f
FrequencyInformationWire(flags, h, f) ==
    TLV(TLV_struct_type.FrequencyInformation,
        <<flags>> \o Cat([i \in 1..h |-> FrequencyHopTableWire(i, i)]) \o f)

FrequencyInformationWires ==
    { FrequencyInformationWire(flags, h, f) :
        flags \in {0, 128}, h \in 0..MaxFrequencies,
        f \in { <<>>, FrequencyInformationWire(0, 0, <<>>) } \cup FixedFrequencyTableWires }

FrequencyHopTableWires ==
    { FrequencyHopTableWire(1, n) : n \in 0..MaxFrequencies }
        \cup { TLV(TLV_struct_type.FrequencyHopTable, <<1, 0>> \o U16(2) \o FrequencyBytes(1)) }

\* the optional parameters of GET_READER_CONFIG_RESPONSE, in the order the
\* decoder tries them
OptionalParameters ==
    << "Identification", "AntennaProperties", "AntennaConfiguration",
       "ReaderEventNotificationSpec", "ROReportSpec", "AccessReportSpec",
       "LLRPConfigurationStateValue", "KeepaliveSpec", "GPIPortCurrentState",
       "GPOWriteData", "EventsAndReports" >>

\* a well-formed parameter of each of them
OptionalParameterWire(name) ==
    CASE name = "Identification" ->
             TLV(TLV_struct_type.Identification, <<0>> \o U16(2) \o <<1, 2>>)
      [] name = "AntennaProperties" ->
             TLV(TLV_struct_type.AntennaProperties, <<128>> \o U16(1) \o U16(0))
      [] name = "AntennaConfiguration" ->
             TLV(TLV_struct_type.AntennaConfiguration, U16(1))
      [] name = "ReaderEventNotificationSpec" ->
             TLV(TLV_struct_type.ReaderEventNotificationSpec,
                 TLV(TLV_struct_type.EventNotificationState, U16(1) \o <<128>>))
      [] name = "ROReportSpec" ->
             TLV(TLV_struct_type.ROReportSpec,
                 <<1>> \o U16(1) \o TLV(TLV_struct_type.TagReportContentSelector, U16(0)))
      [] name = "AccessReportSpec" -> TLV(TLV_struct_type.AccessReportSpec, <<0>>)
      [] name = "LLRPConfigurationStateValue" ->
             TLV(TLV_struct_type.LLRPConfigurationStateValue, U32(7))
      [] name = "KeepaliveSpec" -> TLV(TLV_struct_type.KeepaliveSpec, <<1>> \o U32(1000))
      [] name = "GPIPortCurrentState" ->
             TLV(TLV_struct_type.GPIPortCurrentState, U16(1) \o <<128, 1>>)
      [] name = "GPOWriteData" -> TLV(TLV_struct_type.GPOWriteData, U16(1) \o <<128>>)
      [] name = "EventsAndReports" -> TLV(TLV_struct_type.EventsAndReports, <<128>>)

SuccessStatusWire == TLV(TLV_struct_type.LLRPStatus, U16(0) \o U16(0))

\* an LLRPStatus followed by the optional parameters named in S, in order
ConfigBody(S) ==
    SuccessStatusWire
        \o Cat([i \in 1..Len(OptionalParameters) |->
                  IF OptionalParameters[i] \in S
                  THEN OptionalParameterWire(OptionalParameters[i]) ELSE <<>>])

\* a parameter header of the given type that declares the length 0
ZeroLength(type, body) == U16(type) \o U16(0) \o body

GetReaderConfigBodies ==
    { ConfigBody(S) \o t :
        S \in SUBSET { OptionalParameters[i] : i \in 1..Len(OptionalParameters) },
        t \in { <<>>, <<0, 0>> } }
    \cup { SuccessStatusWire \o w \o w \o t :
             w \in { OptionalParameterWire(n) :
                       n \in {"AntennaProperties", "AntennaConfiguration",
                              "GPIPortCurrentState", "GPOWriteData"} },
             t \in { <<>>, <<0, 0>> } }
    \cup { SuccessStatusWire \o w \o t :
             w \in { ZeroLength(TLV_struct_type.AntennaProperties,
                                <<128>> \o U16(1) \o U16(0)),
                     ZeroLength(TLV_struct_type.AntennaConfiguration, U16(1)),
                     ZeroLength(TLV_struct_type.GPIPortCurrentState,
                                U16(1) \o <<128, 1>>),
                     ZeroLength(TLV_struct_type.GPOWriteData, U16(1) \o <<128>>) },
             t \in { <<>>, <<0, 0>> } }
    \cup { <<>>, OptionalParameterWire("AntennaProperties") }

\* one parameter of every kind
ProbeWires ==
    { UTCTimestampWire, UptimeWire, ConnectionAttemptEventWire, AntennaEventWire,
      ConnectionCloseEventWire, FieldErrorWire, EPCDataWire,
      ParameterErrorWire(0, <<>>),
      TLV(TLV_struct_type.ReaderEventNotificationData, UTCTimestampWire),
      TLV(TLV_struct_type.LLRPStatus, U16(0) \o U16(0)),
      TLV(TLV_struct_type.TagReportData, EPCDataWire),
      GeneralDeviceCapabilitiesWire(1, 0, 0, FALSE, FALSE) }
    \cup { w \in OpSpecResultWires : Len(w) > 0 }
    \cup { w \in ConfigurationWires : Len(w) <= 9 \/ HdrType(w) # TLV_struct_type.ROReportSpec }

\* the buffers given to the decoder the registry holds under name: the
\* parameters of its own kind, one of every other kind, and their prefixes
ParameterBuffers(name) ==
    LET own == CASE name = "ReaderEventNotificationData" -> ReaderEventNotificationDataWires
                 [] name = "LLRPStatus" -> LLRPStatusWires
                 [] name = "GeneralDeviceCapabilities" -> GeneralDeviceCapabilitiesWires
                 [] name \in {"FrequencyInformation", "FixedFrequencyTable"} ->
                        FrequencyInformationWires \cup FixedFrequencyTableWires
                 [] name = "FrequencyHopTable" -> FrequencyHopTableWires
                 [] name \in {"Identification", "ReaderEventNotificationSpec"} ->
                        { OptionalParameterWire(name),
                          OptionalParameterWire(name) \o <<0>> }
                 [] name \in {"ReceiveSensitivityTableEntry",
                              "PerAntennaReceiveSensitivityRange",
                              "PerAntennaAirProtocol", "GPIOCapabilities",
                              "MaximumReceiveSensitivity"} -> CapabilityChildWires
                 [] name = "TagReportData" -> TagReportDataWires
                 [] name \in {"ROReportSpec", "TagReportContentSelector",
                              "AntennaConfiguration"} -> ConfigurationWires
                 [] OTHER -> {}
        whole == own \cup ProbeWires
    IN  { <<>> } \cup { w \o t : w \in whole, t \in Trailers }
            \cup { Slice(w, 0, n) : w \in ProbeWires, n \in {1, 3, 5} }
            \cup { Slice(w, 0, Len(w) - k) : w \in ProbeWires, k \in {1, 2} }

\* the buffers given to the decoders of TV_struct: the TV parameters, alone,
\* followed by other bytes and cut short, and a byte with the marker bit clear
TVBuffers ==
    { <<>>, <<9, 0, 0, 0, 1>>, TV(1, U16(1)), TV(TV_struct_type.ROSpecID, <<0, 0>>) }
    \cup { w \o t : w \in { TV(TV_struct_type.ROSpecID, U32(id)) : id \in ROSpecIDValues }
                        \cup { EPC96Wire },
                    t \in Trailers }

\* the arguments given to the builder: priorities and sessions at and beyond
\* their ranges, a state outside the enumeration, none to two antennas
LLRPROSpecArguments ==
    [ llrpcli : { [reader_mode |-> [ModeIdentifier |-> 1000, MaxTari |-> 6250]] },
      msgid : {0, 1},
      priority : {-1, 0, 7, 8},
      state : {"Disabled", "Active", "Started"},
      antennas : { <<>>, <<1>>, <<1, 2>>, <<10, 1>> },
      tx_power : {91},
      duration_sec : { <<>>, <<0>>, <<2>> },
      report_every_n_tags : { <<>>, <<5>> },
      tag_content_selector : { <<>>, [EnableROSpecID |-> 1, EnableAntennaID |-> 0] },
      session : {0, 2, 3, 4},
      tag_population : {4} ]

\* the values given to encode_SET_READER_CONFIG: EventsAndReports and two
\* other parameter codes, R inside and outside a byte, the flag clear and set
SetReaderConfigValues ==
    [ Code : {TLV_struct_type.EventsAndReports, TLV_struct_type.KeepaliveSpec, 0},
      R : {0, 1, 128, 256},
      Payload : {0, 1} ]

\* the values given to the encoder of the message name
MessageValues(name) ==
    CASE name = "SET_READER_CONFIG" -> SetReaderConfigValues

\* the bodies given to the decoder of the message name
MessageBodies(name) ==
    CASE name = "READER_EVENT_NOTIFICATION" -> ReaderEventNotificationBodies
      [] name = "RO_ACCESS_REPORT" -> ROAccessReportBodies
      [] name = "GET_READER_CONFIG_RESPONSE" -> GetReaderConfigBodies
      [] OTHER -> StatusBodies

(***************************************************************************)
(* The calls.                                                              *)
(***************************************************************************)
\* no call in progress
Idle == fn = ""

Init ==
    /\ fn = "" /\ entry = ""
    /\ arg = <<>>
    /\ out = <<>>

\* TLV_encode(n)(par)
Encode ==
    /\ Idle
    /\ \E n \in DOMAIN TLV_struct_encode : \E par \in EncoderValues(n) :
         /\ entry' = n
         /\ fn' = TLV_struct_encode[n]
         /\ arg' = par
         /\ out' = TLV_encode(n, par)

\* TLV_decode(n)(data)
Decode ==
    /\ Idle
    /\ \E n \in DOMAIN TLV_struct_decode : \E data \in ParameterBuffers(n) :
         /\ entry' = n
         /\ fn' = TLV_struct_decode[n]
         /\ arg' = data
         /\ out' = TLV_decode(n, data)

\* Message_struct[n]['decode'](body)
DecodeMessage ==
    /\ Idle
    /\ \E n \in DOMAIN Message_decode : \E body \in MessageBodies(n) :
         /\ entry' = n
         /\ fn' = Message_decode[n]
         /\ arg' = body
         /\ out' = Message_decode_call(n, body)

\* TLV_encode(message)(par)
EncodeMessage ==
    /\ Idle
    /\ \E n \in DOMAIN Message_encode : \E par \in MessageValues(n) :
         /\ entry' = n
         /\ fn' = Message_encode[n]
         /\ arg' = par
         /\ out' = Message_encode_call(n, par)

\* TV_struct[n]['decode'](data)
DecodeTV ==
    /\ Idle
    /\ \E n \in DOMAIN TV_struct_decode : \E data \in TVBuffers :
         /\ entry' = n
         /\ fn' = TV_struct_decode[n]
         /\ arg' = data
         /\ out' = TV_decode(n, data)

\* LLRPROSpec(llrpcli, msgid, ...)
Build ==
    /\ Idle
    /\ \E a \in LLRPROSpecArguments :
         /\ entry' = "LLRPROSpec"
         /\ fn' = "LLRPROSpec"
         /\ arg' = a
         /\ out' = LLRPROSpec(a)

\* the caller has taken the result; the codec keeps nothing of the call
Return ==
    /\ ~Idle
    /\ fn' = "" /\ entry' = ""
    /\ arg' = <<>>
    /\ out' = <<>>

Next ==
    \/ Encode \/ EncodeMessage \/ Decode \/ DecodeMessage \/ DecodeTV
    \/ Build \/ Return

Spec == Init /\ [][Next]_vars

(***************************************************************************)
(* Properties of the encoders.                                             *)
(***************************************************************************)
\* the call in progress is of a parameter encoder, and it returned bytes
Encoded ==
    /\ entry \in DOMAIN TLV_struct_encode
    /\ fn = TLV_struct_encode[entry]
    /\ out # Raised

\* where the nested parameters start in a parameter of the given type,
\* counted from its first byte; 0 when it nests none
ChildOffset(p) ==
    LET t == HdrType(p)
    IN  CASE t = TLV_struct_type.ROSpec -> 10
          [] t = TLV_struct_type.ROBoundarySpec -> 4
          [] t = TLV_struct_type.AISpec -> 6 + 2 * U16At(p, 4)
          [] t = TLV_struct_type.InventoryParameterSpec -> 7
          [] t = TLV_struct_type.AntennaConfiguration -> 6
          [] t = TLV_struct_type.C1G2InventoryCommand -> 5
          [] t = TLV_struct_type.ROReportSpec -> 7
          [] t = TLV_struct_type.AccessSpec -> 16
          [] t = TLV_struct_type.AccessCommand -> 4
          [] t = TLV_struct_type.C1G2TagSpec -> 4
          [] t = TLV_struct_type.C1G2Lock -> 10
          [] OTHER -> 0

\* the byte string p is one parameter whose length field counts all of p,
\* and so are the parameters nested in it, which fill it exactly
RECURSIVE LengthsOK(_)
RECURSIVE ChildrenOK(_)
LengthsOK(p) ==
    /\ Len(p) >= par_header_len
    /\ HdrLength(p) = Len(p)
    /\ HdrLength(p) >= 4
    /\ HdrType(p) \in { TLV_struct_type[n] : n \in DOMAIN TLV_struct_encode }
    /\ ChildOffset(p) # 0 => /\ ChildOffset(p) <= Len(p)
                             /\ ChildrenOK(From(p, ChildOffset(p)))

ChildrenOK(s) ==
    \/ Len(s) = 0
    \/ /\ Len(s) >= par_header_len
       /\ HdrLength(s) >= 4
       /\ HdrLength(s) <= Len(s)
       /\ LengthsOK(Slice(s, 0, HdrLength(s)))
       /\ ChildrenOK(From(s, HdrLength(s)))

\* C1: whatever a parameter encoder emits, its 16-bit length field and the
\* length field of every parameter nested in it equal the number of bytes
\* of that parameter, header and body, and are at least 4.
C1_LengthFields == Encoded => LengthsOK(out)

\* an ROSpec was encoded, three levels of parameters nested in it
C1_Witness ==
    /\ Encoded /\ fn = "encode_ROSpec"
    /\ Len(arg.AISpec.AntennaIDs.list) = 2
    /\ "RFTransmitter" \in DOMAIN arg.AISpec.InventoryParameterSpec.AntennaConfiguration[1]
    /\ Len(out) > 60

\* C2: encode_ROReportSpec(V) decodes to a value that encode_ROReportSpec
\* accepts and encodes to the same bytes.
C2_RoundTrip ==
    (Encoded /\ fn = "encode_ROReportSpec") =>
        LET d == decode_ROReportSpec(out)
        IN  /\ d.st = "ok"
            /\ encode_ROReportSpec(d.par) # Raised
            /\ encode_ROReportSpec(d.par) = out

\* C5: encode_ROSpec emits the ROSpecID unchanged in bytes 4..7.
C5_ROSpecIDField ==
    (Encoded /\ fn = "encode_ROSpec") => Slice(out, 4, 8) = U32(arg.ROSpecID)

\* C6: the body of the C1G2TagSpec that encode_C1G2TagSpec emits for a list
\* of n >= 1 target tags is the encodings of all n, in list order.
C6_AllTargetTags ==
    (fn = "encode_C1G2TagSpec" /\ Len(arg.C1G2TargetTag) >= 1) =>
        /\ out # Raised
        /\ From(out, par_header_len)
             = Cat([i \in 1..Len(arg.C1G2TargetTag) |->
                      encode_C1G2TargetTag(arg.C1G2TargetTag[i])])

\* the parameter that follows the first nested parameter of an AccessCommand
OperationOf(p) == From(p, par_header_len + HdrLength(From(p, par_header_len)))

\* C7: after the C1G2TagSpec, encode_AccessCommand emits exactly one
\* operation: C1G2BlockWrite (347) for WriteData with WriteDataWordCount > 1,
\* C1G2Write (342) for other WriteData, else C1G2Lock (344) for LockPayload,
\* else C1G2Read (341).
C7_OperationType ==
    (Encoded /\ fn = "encode_AccessCommand") =>
        LET op == arg.OpSpecParameter
            emitted == OperationOf(out)
        IN  /\ HdrType(From(out, par_header_len)) = 338
            /\ Len(emitted) >= par_header_len
            /\ HdrLength(emitted) = Len(emitted)
            /\ HdrType(emitted) =
                 IF "WriteData" \in DOMAIN op
                 THEN IF op.WriteDataWordCount > 1 THEN 347 ELSE 342
                 ELSE IF "LockPayload" \in DOMAIN op THEN 344 ELSE 341

\* a write of one word was encoded as C1G2Write
C7_Witness ==
    /\ Encoded /\ fn = "encode_AccessCommand"
    /\ "WriteData" \in DOMAIN arg.OpSpecParameter
    /\ arg.OpSpecParameter.WriteDataWordCount = 1
    /\ HdrType(OperationOf(out)) = 342

(***************************************************************************)
(* Properties of the decoders.                                             *)
(***************************************************************************)
\* the call in progress is of the decoder of a parameter
DecodingParameter ==
    /\ entry \in DOMAIN TLV_struct_decode
    /\ fn = TLV_struct_decode[entry]

\* the call in progress is of the decoder of a message
DecodingMessage ==
    /\ entry \in DOMAIN Message_decode
    /\ fn = Message_decode[entry]

\* C3: a decoder of the TLV registry given a buffer whose first header has
\* another 10-bit type than the decoder's returns (None, B): no value, no
\* exception, nothing consumed.
C3_PeekDiscipline ==
    (DecodingParameter /\ Len(arg) >= par_header_len
        /\ HdrType(arg) # TLV_struct_type[entry]) =>
        out = NoPar(arg)

\* the messages that carry only an LLRPStatus
StatusOnlyMessages ==
    { "ADD_ROSPEC_RESPONSE", "DELETE_ROSPEC_RESPONSE", "START_ROSPEC_RESPONSE",
      "STOP_ROSPEC_RESPONSE", "ENABLE_ROSPEC_RESPONSE", "DISABLE_ROSPEC_RESPONSE",
      "ADD_ACCESSSPEC_RESPONSE", "DELETE_ACCESSSPEC_RESPONSE",
      "ENABLE_ACCESSSPEC_RESPONSE", "DISABLE_ACCESSSPEC_RESPONSE",
      "CLOSE_CONNECTION_RESPONSE", "SET_READER_CONFIG_RESPONSE", "ErrorMessage" }

\* the buffer is one parameter of the given type and nothing else
ExactlyOne(type, data) ==
    /\ Len(data) >= par_header_len
    /\ HdrType(data) = type
    /\ HdrLength(data) = Len(data)

\* C4: a message that carries only an LLRPStatus decodes to a value only
\* when its body is exactly one LLRPStatus parameter, and raises when the
\* LLRPStatus is absent and when a byte remains after it.
C4_StatusOnly ==
    (DecodingMessage /\ entry \in StatusOnlyMessages) =>
        /\ out.st = "ok" => ExactlyOne(TLV_struct_type.LLRPStatus, arg)
        /\ ~ExactlyOne(TLV_struct_type.LLRPStatus, arg) => out.st = "raise"

\* the body of the parameter at the head of data
BodyOf(data) == Slice(data, par_header_len, HdrLength(data))

\* the buffer starts with the header of a TLV parameter of the given type
StartsWithTLV(type, data) == Len(data) >= par_header_len /\ HdrType(data) = type

\* the buffer starts with the header of a TV parameter of the given type:
\* the marker bit set, then the 7-bit type
StartsWithTV(type, data) == Len(data) >= tve_header_len /\ data[1] = 128 + type

\* C8: decode_TagReportData on a buffer that starts with a TagReportData
\* header returns a value with exactly one of the keys EPCData and EPC-96,
\* EPCData whenever the first child is an EPCData TLV, and raises when the
\* first child is neither an EPCData TLV nor an EPC-96 TV parameter.
C8_EPCFirst ==
    (fn = "decode_TagReportData"
        /\ StartsWithTLV(TLV_struct_type.TagReportData, arg)) =>
        LET body == BodyOf(arg)
            isEPCData == StartsWithTLV(TLV_struct_type.EPCData, body)
            isEPC96 == StartsWithTV(TV_struct_type.EPC96, body)
        IN  /\ out.st # "none"
            /\ out.st = "ok" =>
                 /\ ("EPCData" \in DOMAIN out.par) # ("EPC-96" \in DOMAIN out.par)
                 /\ isEPCData => "EPCData" \in DOMAIN out.par
            /\ (~isEPCData /\ ~isEPC96) => out.st = "raise"

\* C9: decode_ReaderEventNotificationData on a buffer that starts with a
\* parameter header returns a value only when the first child is a
\* UTCTimestamp or an Uptime, raises when it is neither, and never returns
\* both keys UTCTimestamp and Uptime.
C9_OneTimestamp ==
    (fn = "decode_ReaderEventNotificationData" /\ Len(arg) >= par_header_len) =>
        LET body == BodyOf(arg)
            isUTC == StartsWithTLV(TLV_struct_type.UTCTimestamp, body)
            isUptime == StartsWithTLV(TLV_struct_type.Uptime, body)
        IN  /\ out.st # "none"
            /\ out.st = "ok" =>
                 /\ isUTC \/ isUptime
                 /\ ("UTCTimestamp" \in DOMAIN out.par) # ("Uptime" \in DOMAIN out.par)
            /\ (~isUTC /\ ~isUptime) => out.st = "raise"

\* a ReaderEventNotificationData holding a UTCTimestamp and then an Uptime
\* was decoded to a value
C9_Witness ==
    /\ fn = "decode_ReaderEventNotificationData"
    /\ StartsWithTLV(TLV_struct_type.ReaderEventNotificationData, arg)
    /\ StartsWithTLV(TLV_struct_type.UTCTimestamp, BodyOf(arg))
    /\ StartsWithTLV(TLV_struct_type.Uptime, From(BodyOf(arg), Len(UTCTimestampWire)))
    /\ out.st = "ok"
    /\ DOMAIN out.par = {"UTCTimestamp"}

\* C10: decode_ReaderEventNotification raises on a body with bytes after
\* the declared length of the ReaderEventNotificationData parameter, and on
\* a body with bytes left inside the parameter after its last recognised
\* child.
C10_TrailingBytes ==
    (fn = "decode_ReaderEventNotification" /\ Len(arg) >= par_header_len) =>
        LET r == decode_ReaderEventNotificationData(Slice(arg, 0, HdrLength(arg)))
        IN  /\ Len(arg) > HdrLength(arg) => out.st = "raise"
            /\ (r.st = "ok" /\ Len(r.rest) > 0) => out.st = "raise"

\* the event children named in S, in the order AntennaEvent,
\* ConnectionAttemptEvent, ConnectionCloseEvent
EventsInOrder(S) ==
    (IF "AntennaEvent" \in S THEN AntennaEventWire ELSE <<>>)
        \o (IF "ConnectionAttemptEvent" \in S THEN ConnectionAttemptEventWire ELSE <<>>)
        \o (IF "ConnectionCloseEvent" \in S THEN ConnectionCloseEventWire ELSE <<>>)

\* C11: a READER_EVENT_NOTIFICATION whose ReaderEventNotificationData holds
\* one timestamp followed by any subset of AntennaEvent,
\* ConnectionAttemptEvent, ConnectionCloseEvent in that order decodes to a
\* value with exactly the children that are present.
C11_EventChildren ==
    fn = "decode_ReaderEventNotification" =>
        \A S \in SUBSET {"AntennaEvent", "ConnectionAttemptEvent", "ConnectionCloseEvent"} :
            /\ arg = TLV(TLV_struct_type.ReaderEventNotificationData,
                         UTCTimestampWire \o EventsInOrder(S)) =>
                 /\ out.st = "ok"
                 /\ DOMAIN out.par = {"ReaderEventNotificationData"}
                 /\ DOMAIN out.par.ReaderEventNotificationData = {"UTCTimestamp"} \cup S
            /\ arg = TLV(TLV_struct_type.ReaderEventNotificationData,
                         UptimeWire \o EventsInOrder(S)) =>
                 /\ out.st = "ok"
                 /\ DOMAIN out.par = {"ReaderEventNotificationData"}
                 /\ DOMAIN out.par.ReaderEventNotificationData = {"Uptime"} \cup S

\* a notification with an AntennaEvent followed by a ConnectionAttemptEvent
\* was given to the decoder
C11_Witness ==
    /\ fn = "decode_ReaderEventNotification"
    /\ arg = TLV(TLV_struct_type.ReaderEventNotificationData,
                 UTCTimestampWire \o AntennaEventWire \o ConnectionAttemptEventWire)
    /\ out.st = "raise"

\* the value v stored under a key of a decoded parameter holds the decoded
\* child e: the decoders store one dict under each key
Kept(v, e) == v = e

\* C12: decode_GeneralDeviceCapabilities on a body with k consecutive
\* ReceiveSensitivityTableEntry children, j PerAntennaReceiveSensitivityRange
\* children and m PerAntennaAirProtocol children keeps every one of them in
\* the decoded value and decodes the optional children that follow them.
C12_RepeatedChildren ==
    fn = "decode_GeneralDeviceCapabilities" =>
        \A k \in 0..MaxEntries, j \in 0..MaxEntries, m \in 0..MaxEntries,
           g \in BOOLEAN, x \in BOOLEAN :
            arg = GeneralDeviceCapabilitiesWire(k, j, m, g, x) =>
                /\ out.st = "ok"
                /\ ("ReceiveSensitivityTableEntry" \in DOMAIN out.par) = (k > 0)
                /\ ("PerAntennaReceiveSensitivityRange" \in DOMAIN out.par) = (j > 0)
                /\ ("PerAntennaAirProtocol" \in DOMAIN out.par) = (m > 0)
                /\ \A i \in 1..k :
                     Kept(out.par.ReceiveSensitivityTableEntry,
                          decode_ReceiveSensitivityTableEntry(
                              ReceiveSensitivityTableEntryWire(i)).par)
                /\ \A i \in 1..j :
                     Kept(out.par.PerAntennaReceiveSensitivityRange,
                          decode_PerAntennaReceiveSensitivityRange(
                              PerAntennaReceiveSensitivityRangeWire(i)).par)
                /\ \A i \in 1..m :
                     Kept(out.par.PerAntennaAirProtocol,
                          decode_PerAntennaAirProtocol(PerAntennaAirProtocolWire(i)).par)
                /\ ("GPIOCapabilities" \in DOMAIN out.par) = g
                /\ ("MaximumReceiveSensitivity" \in DOMAIN out.par) = x

\* a GeneralDeviceCapabilities with two ReceiveSensitivityTableEntry children
\* and a GPIOCapabilities after them was decoded to a value
C12_Witness ==
    /\ fn = "decode_GeneralDeviceCapabilities"
    /\ arg = GeneralDeviceCapabilitiesWire(2, 0, 0, TRUE, FALSE)
    /\ out.st = "ok"

\* C13: decode_GPIOCapabilities on a parameter whose body is the numbers
\* (a, b) returns a value with NumGPIs = a and NumGPOs = b.
C13_BothCounts ==
    fn = "decode_GPIOCapabilities" =>
        \A c \in GPIOCounts :
            arg = GPIOCapabilitiesWire(c[1], c[2]) =>
                /\ out.st = "ok"
                /\ {"NumGPIs", "NumGPOs"} \subseteq DOMAIN out.par
                /\ out.par.NumGPIs = c[1]
                /\ out.par.NumGPOs = c[2]

\* a GPIOCapabilities with the numbers (4, 8) was decoded to a value
C13_Witness ==
    /\ fn = "decode_GPIOCapabilities"
    /\ arg = GPIOCapabilitiesWire(4, 8)
    /\ out.st = "ok"

\* the value t carries the count n and the n frequencies of the wire, in
\* order, under the keys the table decoders use
CarriesFrequencies(t, n) ==
    /\ "NumFrequencies" \in DOMAIN t
    /\ t.NumFrequencies \in {n, <<n>>}
    /\ \A x \in 1..n :
         /\ ("Frequency" \o ToString(x)) \in DOMAIN t
         /\ t["Frequency" \o ToString(x)] \in {FrequencyBytes(x), <<FrequencyBytes(x)>>}

\* C14: decoding a FrequencyInformation that contains a FixedFrequencyTable
\* with n frequencies yields a FixedFrequencyTable value with the count n
\* and the n frequencies in wire order; so does the registry's
\* FixedFrequencyTable decoder on the table itself.
C14_FixedFrequencyTable ==
    \A n \in 0..MaxFrequencies :
        /\ (fn = "decode_FrequencyInformation"
              /\ \E flags \in {0, 128}, h \in 0..MaxFrequencies :
                   arg = FrequencyInformationWire(flags, h, FixedFrequencyTableWire(n))) =>
             /\ out.st = "ok"
             /\ "FixedFrequencyTable" \in DOMAIN out.par
             /\ CarriesFrequencies(out.par.FixedFrequencyTable, n)
        /\ (entry = "FixedFrequencyTable" /\ fn = TLV_struct_decode[entry]
              /\ arg = FixedFrequencyTableWire(n)) =>
             /\ out.st = "ok"
             /\ CarriesFrequencies(out.par, n)

\* a FrequencyInformation holding a FixedFrequencyTable of two frequencies
\* was decoded to a value
C14_Witness ==
    /\ fn = "decode_FrequencyInformation"
    /\ arg = FrequencyInformationWire(0, 0, FixedFrequencyTableWire(2))
    /\ out.st = "ok"

\* C15: decode_GET_READER_CONFIG returns or raises on every buffer: no
\* repeated-parameter loop is left iterating on an unchanged buffer.
C15_Terminates ==
    fn = "decode_GET_READER_CONFIG" => out.st # "diverge"

\* a body with an AntennaProperties header that declares the length 0 was
\* given to the decoder
C15_Witness ==
    /\ fn = "decode_GET_READER_CONFIG"
    /\ arg = SuccessStatusWire
               \o ZeroLength(TLV_struct_type.AntennaProperties, <<128>> \o U16(1) \o U16(0))
    /\ out.st = "diverge"

\* C16: decode_GET_READER_CONFIG on an LLRPStatus followed by any subset of
\* the optional parameters, in order, returns a value with LLRPStatus and
\* exactly the parameters present.
C16_OptionalParameters ==
    fn = "decode_GET_READER_CONFIG" =>
        \A S \in SUBSET { OptionalParameters[i] : i \in 1..Len(OptionalParameters) } :
            arg = ConfigBody(S) =>
                /\ out.st = "ok"
                /\ DOMAIN out.par = {"LLRPStatus"} \cup S

\* a body holding only the LLRPStatus was given to the decoder
C16_Witness ==
    /\ fn = "decode_GET_READER_CONFIG"
    /\ arg = ConfigBody({})
    /\ out.st = "raise"

\* C17: a decoder of the TLV registry given a parameter of its own type
\* whose length field declares more bytes than the buffer holds raises; it
\* does not return a value built from the bytes that are there.
C17_LengthOverrun ==
    (DecodingParameter /\ Len(arg) >= par_header_len
        /\ HdrType(arg) = TLV_struct_type[entry]
        /\ HdrLength(arg) > Len(arg)) =>
        out.st = "raise"

\* an EPCData whose declared length is beyond the end of the buffer was
\* decoded to a value
C17_Witness ==
    /\ fn = "decode_EPCData"
    /\ Len(arg) >= par_header_len
    /\ HdrType(arg) = TLV_struct_type.EPCData
    /\ HdrLength(arg) > Len(arg)
    /\ out.st = "ok"
    /\ Len(out.par.EPC) < 2 * (HdrLength(arg) - 6)

\* the bytes of b after the parameter of the given type at its head, and b
\* itself when b does not start with a parameter of that type
SkipParameter(type, b) ==
    IF Len(b) >= par_header_len /\ HdrType(b) = type
    THEN From(b, HdrLength(b))
    ELSE b

\* the bytes left inside the body of the LLRPStatus at the head of data after
\* the fields, the ErrorDescription, a FieldError and a ParameterError
StatusLeftover(data) ==
    LET body == Slice(data, par_header_len, HdrLength(data))
    IN  IF Len(body) < 4 THEN <<>>
        ELSE SkipParameter(TLV_struct_type.ParameterError,
                 SkipParameter(TLV_struct_type.FieldError,
                     From(body, 4 + U16At(body, 2))))

\* C18: decode_LLRPStatus on a parameter of type 287 raises whenever bytes
\* remain inside the body after the ErrorDescription, the optional FieldError
\* and the optional ParameterError; when it returns a value the remainder is
\* the bytes after the declared length.
C18_StatusEnd ==
    (fn = "decode_LLRPStatus" /\ Len(arg) >= par_header_len
        /\ HdrType(arg) = TLV_struct_type.LLRPStatus) =>
        /\ Len(StatusLeftover(arg)) > 0 => out.st = "raise"
        /\ out.st = "ok" => out.rest = From(arg, HdrLength(arg))

\* an LLRPStatus whose body holds a FieldError and then an Uptime was refused
C18_Witness ==
    /\ fn = "decode_LLRPStatus"
    /\ arg = TLV(TLV_struct_type.LLRPStatus,
                 U16(0) \o U16(0) \o FieldErrorWire \o UptimeWire)
    /\ StatusLeftover(arg) = UptimeWire
    /\ out.st = "raise"

\* an LLRPStatus with a ParameterError was decoded and bytes follow it
C18_WitnessRemainder ==
    /\ fn = "decode_LLRPStatus"
    /\ arg = TLV(TLV_struct_type.LLRPStatus,
                 U16(0) \o U16(0) \o ParameterErrorWire(0, <<>>)) \o UptimeWire
    /\ out.st = "ok" /\ out.rest = UptimeWire

\* C19: every value decode_LLRPStatus returns carries StatusCode, holding
\* the name Error_Type2Name gives to the status code of the parameter.
C19_StatusCode ==
    (fn = "decode_LLRPStatus" /\ out.st = "ok" /\ Truthy(out)) =>
        /\ "StatusCode" \in DOMAIN out.par
        /\ <<U16At(arg, par_header_len), out.par.StatusCode>> \in Error_Type2Name

\* an LLRPStatus with a status code outside the enumeration was decoded to a
\* value without StatusCode
C19_Witness ==
    /\ fn = "decode_LLRPStatus"
    /\ arg = TLV(TLV_struct_type.LLRPStatus, U16(999) \o U16(0))
    /\ \A m \in DOMAIN Error_Name2Type : Error_Name2Type[m] # 999
    /\ out.st = "ok" /\ DOMAIN out.par = {"ErrorDescription"}

\* C20: the entry of TLV_struct whose decoder is called has a type code of
\* 128 or more, every entry of TV_struct has a type code below 128, and no
\* entry of TV_struct has the type code of that entry of TLV_struct.
C20_DisjointCodes ==
    (entry \in DOMAIN Message_type \cup DOMAIN TLV_struct_type) =>
        /\ TLVTypeOf(entry) >= 128
        /\ \A v \in DOMAIN TV_struct_type :
              /\ TV_struct_type[v] < 128
              /\ TV_struct_type[v] # TLVTypeOf(entry)

\* the decoder of SET_READER_CONFIG_RESPONSE, whose type code is the one of
\* EPC-96 in TV_struct, was called
C20_Witness ==
    /\ entry = "SET_READER_CONFIG_RESPONSE"
    /\ fn = Message_decode[entry]
    /\ Message_type[entry] = TV_struct_type.EPC96

\* C21: the ROSpecID decoder of TV_struct, on a buffer whose first byte has
\* the 7-bit type 9, returns the ROSpecID held in the next 4 bytes and the
\* buffer after those 5 bytes; on a first byte of another 7-bit type it
\* returns no parameter and the buffer.
C21_ROSpecID ==
    (entry = "ROSpecID" /\ fn = TV_struct_decode.ROSpecID /\ Len(arg) > 0) =>
        IF arg[1] % 128 = TV_struct_type.ROSpecID
        THEN Len(arg) >= 5 =>
                 out = Ok([ROSpecID |-> SubSeq(arg, 2, 5)], SubSeq(arg, 6, Len(arg)))
        ELSE out = NoPar(arg)

\* the ROSpecID decoder was given the TV parameter ROSpecID = 1 and raised
C21_Witness ==
    /\ entry = "ROSpecID" /\ fn = "decode_ROSpecID"
    /\ arg = TV(TV_struct_type.ROSpecID, U32(1))
    /\ out.st = "raise"

\* C22: the builder raises, and produces no ROSpec, when the priority is
\* outside 0..7, when the state is none of Disabled, Inactive and Active,
\* and when the singulation session is outside 0..3.
C22_RejectsOutOfRange ==
    (fn = "LLRPROSpec"
        /\ (\/ arg.priority \notin 0..7
            \/ arg.state \notin {"Disabled", "Inactive", "Active"}
            \/ arg.session \notin 0..3)) =>
        out.st = "raise"

\* the builder was given session 4 with one antenna and produced a ROSpec
\* whose C1G2SingulationControl holds that session
C22_Witness ==
    /\ fn = "LLRPROSpec"
    /\ arg.session = 4 /\ Len(arg.antennas) = 1
    /\ out.st = "ok"
    /\ out.self.ROSpec.AISpec.InventoryParameterSpec.AntennaConfiguration[1]
          .C1G2InventoryCommand.C1G2SingulationControl.Session = 4

\* C23: in every ROSpec the builder produces the ROSpecStopTrigger is Null
\* with DurationTriggerValue 0 when no duration is given and Duration with
\* the given duration in milliseconds when one is given; the start trigger is
\* Immediate and the AISpecStopTrigger is Duration with 500 ms.
C23_Triggers ==
    (fn = "LLRPROSpec" /\ out.st = "ok") =>
        LET b == out.self.ROSpec.ROBoundarySpec
            stop == b.ROSpecStopTrigger
            ai == out.self.ROSpec.AISpec.AISpecStopTrigger
        IN  /\ Len(arg.duration_sec) = 0 =>
                /\ stop.ROSpecStopTriggerType = "Null"
                /\ stop.DurationTriggerValue = 0
            /\ Len(arg.duration_sec) = 1 =>
                /\ stop.ROSpecStopTriggerType = "Duration"
                /\ stop.DurationTriggerValue = 1000 * arg.duration_sec[1]
            /\ b.ROSpecStartTrigger.ROSpecStartTriggerType = "Immediate"
            /\ ai.AISpecStopTriggerType = "Duration"
            /\ ai.DurationTriggerValue = 500

\* a ROSpec was built for a duration of 2 s, which is 2000 ms
C23_Witness ==
    /\ fn = "LLRPROSpec" /\ out.st = "ok"
    /\ arg.duration_sec = <<2>>
    /\ out.self.ROSpec.ROBoundarySpec.ROSpecStopTrigger.DurationTriggerValue = 2000

\* C24: the ROSpec built for a list of antennas holds one
\* AntennaConfiguration per listed antenna, in list order, each with the
\* reader mode's ModeIdentifier as ModeIndex and its MaxTari as Tari, and
\* encode_AISpec of its AISpec writes the number of listed antennas, then
\* that many 16-bit antenna ids, then the AISpecStopTrigger.
C24_PerAntenna ==
    (fn = "LLRPROSpec" /\ out.st = "ok") =>
        LET ais == out.self.ROSpec.AISpec
            cfg == ais.InventoryParameterSpec.AntennaConfiguration
            n == Len(arg.antennas)
            w == encode_AISpec(ais)
        IN  /\ Len(cfg) = n
            /\ \A i \in 1..n :
                  /\ cfg[i].AntennaID = arg.antennas[i]
                  /\ cfg[i].C1G2InventoryCommand.C1G2RFControl.ModeIndex
                        = arg.llrpcli.reader_mode.ModeIdentifier
                  /\ cfg[i].C1G2InventoryCommand.C1G2RFControl.Tari
                        = arg.llrpcli.reader_mode.MaxTari
            /\ w # Raised =>
                  /\ U16At(w, 4) = n
                  /\ \A i \in 1..n : U16At(w, 6 + 2 * (i - 1)) = arg.antennas[i]
                  /\ HdrType(From(w, 6 + 2 * n)) = TLV_struct_type.AISpecStopTrigger

\* a ROSpec was built for the antennas 10 and 1 and its AISpec was encoded
C24_Witness ==
    /\ fn = "LLRPROSpec" /\ out.st = "ok"
    /\ arg.antennas = <<10, 1>>
    /\ Len(out.self.ROSpec.AISpec.InventoryParameterSpec.AntennaConfiguration) = 2
    /\ Slice(encode_AISpec(out.self.ROSpec.AISpec), 4, 10) = <<0, 2, 0, 10, 0, 1>>

\* a ROSpec was built for one antenna: the count is 1 and the ids are 2 bytes
C24_WitnessOne ==
    /\ fn = "LLRPROSpec" /\ out.st = "ok"
    /\ arg.antennas = <<1>>
    /\ Slice(encode_AISpec(out.self.ROSpec.AISpec), 4, 8) = <<0, 1, 0, 1>>
    /\ HdrType(From(encode_AISpec(out.self.ROSpec.AISpec), 8))
          = TLV_struct_type.AISpecStopTrigger

\* C25: encode_SET_READER_CONFIG raises, and returns no bytes, when the
\* embedded parameter code is not 226; with code 226 it returns the
\* restore-factory-settings byte followed by one parameter of type 226 and
\* length 5 whose one body byte holds the payload flag in bit 7.
C25_SetReaderConfig ==
    fn = "encode_SET_READER_CONFIG" =>
        /\ arg.Code # 226 => out = Raised
        /\ (arg.Code = 226 /\ arg.R \in 0..255) =>
              /\ out # Raised
              /\ Len(out) = 6
              /\ out[1] = arg.R
              /\ U16At(out, 1) = 226
              /\ U16At(out, 3) = 5 /\ Len(From(out, 1)) = 5
              /\ out[6] \div 128 = arg.Payload /\ out[6] % 128 = 0

\* SET_READER_CONFIG was encoded for EventsAndReports with the flag set
C25_Witness ==
    /\ fn = "encode_SET_READER_CONFIG"
    /\ arg.Code = 226 /\ arg.Payload = 1 /\ arg.R = 0
    /\ out = <<0, 0, 226, 0, 5, 128>>

\* encode_SET_READER_CONFIG refused the code of KeepaliveSpec
C25_WitnessRefused ==
    /\ fn = "encode_SET_READER_CONFIG"
    /\ arg.Code = TLV_struct_type.KeepaliveSpec
    /\ out = Raised

\* C26: for every assignment V of the ten flags of TagReportContentSelector,
\* decode_TagReportContentSelector(encode_TagReportContentSelector(V))
\* returns the truth value V gives to each flag and an empty remainder, and
\* the six low bits of the emitted flag word are zero.
C26_SelectorRoundTrip ==
    (fn = "encode_TagReportContentSelector" /\ arg \in SelectorAssignments) =>
        /\ out # Raised
        /\ LET d == decode_TagReportContentSelector(out)
           IN  /\ d.st = "ok"
               /\ d.rest = <<>>
               /\ DOMAIN d.par = DOMAIN arg
               /\ \A f \in DOMAIN arg : (d.par[f] # 0) <=> (arg[f] # 0)
        /\ U16At(out, 4) % 64 = 0

\* the selector with only EnableAntennaID and EnableAccessSpecID set was
\* encoded: bits 12 and 6 of the flag word
C26_Witness ==
    /\ fn = "encode_TagReportContentSelector"
    /\ arg \in SelectorAssignments
    /\ \A f \in DOMAIN arg :
          arg[f] = (IF f \in {"EnableAntennaID", "EnableAccessSpecID"} THEN 1 ELSE 0)
    /\ out # Raised /\ U16At(out, 4) = 4096 + 64

\* TagReportData parameters as a reader writes them: an EPCData or an
\* EPC-96, then TV parameters, then at most one OpSpecResult
WellFormedReports ==
    { TLV(TLV_struct_type.TagReportData, e \o t \o o) :
        e \in { EPCDataWire, EPC96Wire },
        t \in { w \in TVWires : w # TV(1, <<0>>) },
        o \in { w \in OpSpecResultWires : w # UptimeWire } }

\* the parameters a buffer is the concatenation of, cut at the declared
\* lengths; the bytes that hold no whole parameter are the last element
RECURSIVE ParametersOf(_)
ParametersOf(b) ==
    IF Len(b) = 0 THEN <<>>
    ELSE IF Len(b) < par_header_len \/ HdrLength(b) < par_header_len
              \/ HdrLength(b) > Len(b)
         THEN <<b>>
         ELSE <<Slice(b, 0, HdrLength(b))>> \o ParametersOf(From(b, HdrLength(b)))

\* C27: decode_ROAccessReport on the concatenation of n >= 0 well-formed
\* TagReportData parameters returns the list of the n decoded parameters in
\* wire order, each of them decoded from its declared length of bytes, and
\* the call returns.
C27_ReportList ==
    (fn = "decode_ROAccessReport"
        /\ \A i \in 1..Len(ParametersOf(arg)) :
              ParametersOf(arg)[i] \in WellFormedReports) =>
        /\ out.st = "ok"
        /\ Len(out.par.TagReportData) = Len(ParametersOf(arg))
        /\ \A i \in 1..Len(ParametersOf(arg)) :
              /\ decode_TagReportData(ParametersOf(arg)[i]).st = "ok"
              /\ decode_TagReportData(ParametersOf(arg)[i]).rest = <<>>
              /\ out.par.TagReportData[i]
                    = decode_TagReportData(ParametersOf(arg)[i]).par

\* a report of two different TagReportData parameters was decoded
C27_Witness ==
    /\ fn = "decode_ROAccessReport"
    /\ Len(ParametersOf(arg)) = 2
    /\ \A i \in 1..2 : ParametersOf(arg)[i] \in WellFormedReports
    /\ ParametersOf(arg)[1] # ParametersOf(arg)[2]
    /\ out.st = "ok" /\ Len(out.par.TagReportData) = 2
    /\ out.par.TagReportData[1] # out.par.TagReportData[2]

\* a report of no TagReportData was decoded to the empty list
C27_WitnessEmpty ==
    /\ fn = "decode_ROAccessReport" /\ arg = <<>>
    /\ out.st = "ok" /\ out.par.TagReportData = <<>>

\* ceil(bits / 8)
BytesFor(bits) == (bits + 7) \div 8

\* field is the first nbytes bytes of bstr followed by zero bytes, nbytes long
PaddedTo(field, bstr, nbytes) ==
    /\ Len(field) = nbytes
    /\ \A i \in 1..nbytes : field[i] = (IF i <= Len(bstr) THEN bstr[i] ELSE 0)

\* C28: encode_C1G2TargetTag emits a TagMask field of ceil(MaskBitCount / 8)
\* bytes and a TagData field of ceil(DataBitCount / 8) bytes, whatever the
\* byte strings given: a shorter string is padded with zero bytes on the
\* right, the field is never longer, and it is empty for a bit count of 0.
C28_BitStringFields ==
    (fn = "encode_C1G2TargetTag" /\ out # Raised) =>
        LET nm == BytesFor(arg.MaskBitCount)
            nd == BytesFor(arg.DataBitCount)
        IN  /\ Len(out) = par_header_len + 5 + nm + 2 + nd
            /\ U16At(out, 7) = arg.MaskBitCount
            /\ PaddedTo(Slice(out, 9, 9 + nm), arg.TagMask, nm)
            /\ U16At(out, 9 + nm) = arg.DataBitCount
            /\ PaddedTo(From(out, 11 + nm), arg.TagData, nd)

\* a target tag with MaskBitCount 8 and a TagMask of 3 bytes was encoded
\* with a TagMask field of 3 bytes
C28_Witness ==
    /\ fn = "encode_C1G2TargetTag" /\ out # Raised
    /\ arg.MaskBitCount = 8 /\ arg.TagMask = <<171, 205, 239>>
    /\ arg.DataBitCount = 0
    /\ From(out, 9) = <<171, 205, 239, 0, 0>>

\* C29: the bytes the encoder registered under a name of TLV_struct returns
\* have that name's registered type code in their header, and the decoder
\* registered under a name does not answer "no parameter" to a parameter
\* whose header has that name's registered type code.
C29_DispatchTypes ==
    /\ Encoded => HdrType(out) = TLV_struct_type[entry]
    /\ (DecodingParameter /\ Len(arg) >= par_header_len
           /\ HdrType(arg) = TLV_struct_type[entry]) =>
          out.st # "none"

\* the encoder registered under C1G2BlockWrite returned a parameter with the
\* type code of C1G2Write
C29_Witness ==
    /\ Encoded /\ entry = "C1G2BlockWrite"
    /\ TLV_struct_type[entry] = 347
    /\ HdrType(out) = TLV_struct_type.C1G2Write

\* the decoder registered under FixedFrequencyTable answered "no parameter"
\* to a FixedFrequencyTable
C29_WitnessDecoder ==
    /\ DecodingParameter /\ entry = "FixedFrequencyTable"
    /\ arg = FixedFrequencyTableWire(1)
    /\ HdrType(arg) = TLV_struct_type[entry]
    /\ out = NoPar(arg)

\* C30: a decoder of TLV_struct that returns a value for a parameter of its
\* type with declared length L returns as remainder the input from offset L
\* on, and returns the value it returns for the first L bytes alone: the
\* bytes at and beyond offset L have no part in it.
C30_DeclaredLength ==
    (DecodingParameter /\ Len(arg) >= par_header_len
        /\ HdrType(arg) = TLV_struct_type[entry]
        /\ out.st = "ok" /\ Truthy(out)) =>
        /\ out.rest = From(arg, HdrLength(arg))
        /\ TLV_decode(entry, Slice(arg, 0, HdrLength(arg))).st = "ok"
        /\ TLV_decode(entry, Slice(arg, 0, HdrLength(arg))).par = out.par

\* a ReaderEventNotificationData followed by one byte was decoded and the
\* byte is not in the remainder
C30_Witness ==
    /\ DecodingParameter /\ entry = "ReaderEventNotificationData"
    /\ arg = TLV(TLV_struct_type.ReaderEventNotificationData, UTCTimestampWire) \o <<0>>
    /\ out.st = "ok" /\ Truthy(out)
    /\ From(arg, HdrLength(arg)) = <<0>>
    /\ out.rest = <<>>
====
